---------------------------- MODULE Spec2Model ----------------------------
(***************************************************************************)
(* A model of the go_learning repository.  The repository is a collection  *)
(* of independent example programs; the variable `example` names the one   *)
(* that is running, and every other program's variables stay as they were  *)
(* constructed.                                                            *)
(***************************************************************************)
EXTENDS Integers, Sequences, FiniteSets, Bags, TLC

VARIABLES
    example,      \* the example program that is running
    \* ---- channel bookkeeping of the concurrency package's patterns
    chClosers,    \* per channel: the goroutines that executed close on it, in order
    chSenders,    \* per channel: the goroutines that executed a send on it
    panicked,     \* the run-time panic that ended the program ("" while none)
    \* ---- mutex counter program (src/select/main.go:81-98)
    counter,      \* var counter int
    mu,           \* var mu sync.Mutex: TRUE while locked
    incPc,        \* position of each increment() goroutine
    incI,         \* loop variable i of each increment() goroutine
    incTmp,       \* value loaded by counter++ before it is stored back
    mxSpawned,    \* loop variable i of main: goroutines started so far
    mxMainPc,     \* position of main
    mxPrinted,    \* the value printed as "Final Counter:" (-1: nothing yet)
    \* ---- WorkerPoolPattern (src/concurrency/goroutines_channels.go:414-459)
    wpJobs,       \* contents of the jobs channel, oldest first
    wpResults,    \* contents of the results channel, oldest first
    wpMainPc,     \* position of WorkerPoolPattern
    wpW,          \* workers started so far
    wpJ,          \* jobs sent so far
    wpR,          \* results collected so far
    wpGot,        \* bag of the results WorkerPoolPattern has received
    wpPc,         \* position of each poolWorker
    wpJob,        \* the job each poolWorker holds (0: none)
    wpRecv,       \* how many times each job was received from jobs
    \* ---- fibonacci, as a machine of call frames
    fbN,          \* the argument of the outermost call
    fbStack,      \* the call stack, innermost frame last
    fbRet,        \* the value returned by the call that returned last
    \* ---- functions package: divide and validateEmail
    fnName,       \* the function that is called
    fnPc,         \* "call" before the call, then "returned" or "panic"
    dvDividend,   \* divide's dividend
    dvDivisor,    \* divide's divisor
    dvResult,     \* divide's (quotient, remainder)
    emEmail,      \* validateEmail's argument, a sequence of characters
    emErr,        \* validateEmail's result: "nil" or the error's text
    \* ---- the menu loop of main (src/main.go:20-104)
    mnPc,         \* position of main in the loop
    mnInput,      \* the line read at the menu prompt, a sequence of characters
    mnChoice,     \* choice: what getUserInput returned
    mnRan,        \* the module function run in this iteration ("none": none)
    mnInvalid,    \* whether this iteration printed the invalid-choice error
    mnPrev,       \* what the previous iteration ran ("none", "invalid" or a module)
    \* ---- ProducerConsumerPattern (src/concurrency/goroutines_channels.go:207-308)
    pcJobs,       \* contents of the jobs channel, oldest first
    pcResults,    \* contents of the results channel, oldest first
    pcMainPc,     \* position of ProducerConsumerPattern
    pcI,          \* consumers started so far
    pcWg,         \* the counter of wg
    prodPc,       \* position of producer
    prodI,        \* jobs produced so far
    consPc,       \* position of each consumer
    consJob,      \* the job each consumer holds
    colPc,        \* position of resultCollector
    collected,    \* resultCollector's collected
    pcRecv,       \* per job ID: how many times it was received from jobs
    pcSent,       \* per job ID: how many results with that JobID were sent
    \* ---- PipelinePattern (src/concurrency/goroutines_channels.go:350-411)
    plMainPc,     \* position of PipelinePattern
    genPc,        \* position of generateNumbers' goroutine
    genI,         \* its loop variable i
    sqPc,         \* position of squareNumbers' goroutine
    sqVal,        \* its n, then its squared
    flPc,         \* position of filterEven's goroutine
    flVal,        \* the n it passes on
    plVal,        \* the result PipelinePattern's range has received
    plOut,        \* the results PipelinePattern has printed, in order
    \* ---- the WaitGroup programs (src/concurrency/goroutines_channels.go:58-86,
    \* ---- src/waitGroup/main.go)
    wgCounter,    \* the counter of wg
    wgMainPc,     \* position of WaitGroupExamples / main
    wgI,          \* its loop variable i
    wgPc,         \* position of each worker
    wgOut,        \* the completion messages and the final line printed, in order
    \* ---- rateLimitMiddleware (src/backend/http_server.go:379-410)
    rlRequests,   \* requests: map from key to the times recorded for it
    rlNow,        \* the clock: the latest value of time.Now()
    rlPassed,     \* per client IP: the times of the requests passed to next
    rlLast,       \* the latest request: its RemoteAddr, time and response status
    \* ---- rateLimitMiddleware, concurrent invocations
    rcH,          \* per handler goroutine: its position, clientIP, now and the slice it holds
    rcWriters,    \* the goroutines that are in the middle of a map assignment
    rcFatal,      \* the fatal error of the runtime that ended the program ("" while none)
    rcCount,      \* the number of requests that have arrived
    rcLost,       \* a map assignment has dropped a recorded request
    rcOverlapped, \* two invocations for one client have run at the same time
    \* ---- the middleware chains (src/backend/http_server.go:229-286, 336-360)
    mwChain,      \* the chain the request is served by, outermost handler first
    mwReq,        \* the request: its method and its Authorization header
    mwStack,      \* the calls in progress: the layer and where it is
    mwTrace,      \* what has run, in order
    mwStatus,     \* the status written to the response (0 while none)
    mwBody,       \* the body written to the response
    mwCors,       \* the CORS headers are set
    mwCalls,      \* per layer: how often it has called next.ServeHTTP
    \* ---- the timed programs: SelectExamples, select/main.go, ContextExamples
    tmNow,        \* the clock, in ticks
    tmPc,         \* position of main, of each goroutine and of each timer
    tmDue,        \* when each one's sleep, timer or next statement is due (-1: none)
    tmOut,        \* the lines printed, in order
    tmCtx,        \* per context: its Err(), "" while it is not done
    tmSleeps,     \* the sleeps of the two goroutines of the standalone select program
    \* ---- the defer program
    dfPc,         \* the statement main is at
    dfI,          \* the loop variable i
    dfStack,      \* the deferred calls, in the order of their registration
    dfOut,        \* what was written to standard output, write by write
    \* ---- functions.Server
    srvName,      \* Server.Name
    srvPort,      \* Server.Port
    srvRunning,   \* Server.Running
    srvLog,       \* the calls made so far: method, argument, what it printed or returned
    \* ---- the users API of the HTTP server
    hsReq,        \* the request served last: method, path, body
    hsResp,       \* what its handler wrote to the http.ResponseWriter
    hsNow,        \* time.Now().Unix()
    hsIssued      \* the IDs given to the users created so far, in order

chanVars == <<chClosers, chSenders, panicked>>
mutexVars == <<counter, mu, incPc, incI, incTmp, mxSpawned, mxMainPc, mxPrinted>>
poolVars == <<wpJobs, wpResults, wpMainPc, wpW, wpJ, wpR, wpGot,
              wpPc, wpJob, wpRecv>>
fibVars == <<fbN, fbStack, fbRet>>
fnVars == <<fnName, fnPc, dvDividend, dvDivisor, dvResult, emEmail, emErr>>
menuVars == <<mnPc, mnInput, mnChoice, mnRan, mnInvalid, mnPrev>>
pcVars == <<pcJobs, pcResults, pcMainPc, pcI, pcWg, prodPc, prodI, consPc, consJob,
            colPc, collected, pcRecv, pcSent>>
pipeVars == <<plMainPc, genPc, genI, sqPc, sqVal, flPc, flVal, plVal, plOut>>

wgVars == <<wgCounter, wgMainPc, wgI, wgPc, wgOut>>
rateLimitVars == <<rlRequests, rlNow, rlPassed, rlLast>>
rcVars == <<rcH, rcWriters, rcFatal, rcCount, rcLost, rcOverlapped>>
mwVars == <<mwChain, mwReq, mwStack, mwTrace, mwStatus, mwBody, mwCors, mwCalls>>
tmVars == <<tmNow, tmPc, tmDue, tmOut, tmCtx, tmSleeps>>
dfVars == <<dfPc, dfI, dfStack, dfOut>>
srvVars == <<srvName, srvPort, srvRunning, srvLog>>
hsVars == <<hsReq, hsResp, hsNow, hsIssued>>

vars == <<example, chanVars, mutexVars, poolVars, fibVars, fnVars, menuVars,
          pcVars, pipeVars, wgVars, rateLimitVars, rcVars, mwVars, tmVars,
          dfVars, srvVars, hsVars>>

\* What the steps of one example leave alone: the other examples.
OtherThanMutex == <<example, chanVars, poolVars, fibVars, fnVars, menuVars,
                    pcVars, pipeVars, wgVars, rateLimitVars, rcVars, mwVars,
                    tmVars, dfVars, srvVars, hsVars>>
OtherThanPool == <<example, mutexVars, fibVars, fnVars, menuVars, pcVars,
                   pipeVars, wgVars, rateLimitVars, rcVars, mwVars, tmVars,
                   dfVars, srvVars, hsVars>>
OtherThanFib == <<example, chanVars, mutexVars, poolVars, fnVars, menuVars,
                  pcVars, pipeVars, wgVars, rateLimitVars, rcVars, mwVars,
                  tmVars, dfVars, srvVars, hsVars>>
OtherThanFn == <<example, chanVars, mutexVars, poolVars, fibVars, menuVars,
                 pcVars, pipeVars, wgVars, rateLimitVars, rcVars, mwVars,
                 tmVars, dfVars, srvVars, hsVars>>
OtherThanMenu == <<example, chanVars, mutexVars, poolVars, fibVars, fnVars,
                   pcVars, pipeVars, wgVars, rateLimitVars, rcVars, mwVars,
                   tmVars, dfVars, srvVars, hsVars>>
OtherThanPc == <<example, mutexVars, poolVars, fibVars, fnVars, menuVars,
                 pipeVars, wgVars, rateLimitVars, rcVars, mwVars, tmVars,
                 dfVars, srvVars, hsVars>>
OtherThanPipe == <<example, mutexVars, poolVars, fibVars, fnVars, menuVars,
                   pcVars, wgVars, rateLimitVars, rcVars, mwVars, tmVars,
                   dfVars, srvVars, hsVars>>
OtherThanWg == <<example, mutexVars, poolVars, fibVars, fnVars, menuVars,
                 pcVars, pipeVars, rateLimitVars, rcVars, mwVars, tmVars,
                 dfVars, srvVars, hsVars>>
OtherThanRateLimit == <<example, chanVars, mutexVars, poolVars, fibVars,
                        fnVars, menuVars, pcVars, pipeVars, wgVars, rcVars,
                        mwVars, tmVars, dfVars, srvVars, hsVars>>
OtherThanRc == <<example, chanVars, mutexVars, poolVars, fibVars, fnVars,
                 menuVars, pcVars, pipeVars, wgVars, mwVars, tmVars, dfVars,
                 srvVars, hsVars>>
OtherThanMw == <<example, chanVars, mutexVars, poolVars, fibVars, fnVars,
                 menuVars, pcVars, pipeVars, wgVars, rateLimitVars, rcVars,
                 tmVars, dfVars, srvVars, hsVars>>
OtherThanTm == <<example, chanVars, mutexVars, poolVars, fibVars, fnVars,
                 menuVars, pcVars, pipeVars, wgVars, rateLimitVars, rcVars,
                 mwVars, dfVars, srvVars, hsVars>>
OtherThanDf == <<example, chanVars, mutexVars, poolVars, fibVars, fnVars,
                 menuVars, pcVars, pipeVars, wgVars, rateLimitVars, rcVars,
                 mwVars, tmVars, srvVars, hsVars>>
OtherThanSrv == <<example, chanVars, mutexVars, poolVars, fibVars, fnVars,
                  menuVars, pcVars, pipeVars, wgVars, rateLimitVars, rcVars,
                  mwVars, tmVars, dfVars, hsVars>>
OtherThanHs == <<example, chanVars, mutexVars, poolVars, fibVars, fnVars,
                 menuVars, pcVars, pipeVars, wgVars, rateLimitVars, rcVars,
                 mwVars, tmVars, dfVars, srvVars>>

(***************************************************************************)
(* Channels.  A buffered channel is the sequence of its buffered values;   *)
(* close on a closed channel and send on a closed channel panic.           *)
(***************************************************************************)
ChanNames ==
    {"wp.jobs", "wp.results", "pc.jobs", "pc.results", "numbers", "squared", "filtered"}

ChanStart ==
    /\ chClosers = [c \in ChanNames |-> <<>>]
    /\ chSenders = [c \in ChanNames |-> {}]
    /\ panicked = ""

IsClosed(c) == chClosers[c] # <<>>

\* The program is still running: a panic ends it.
Alive == panicked = ""

\* The effect of close(c), executed by goroutine g, on the bookkeeping.
Close(c, g) ==
    /\ chClosers' = [chClosers EXCEPT ![c] = Append(@, g)]
    /\ panicked' = IF IsClosed(c) THEN "close of closed channel" ELSE panicked
    /\ UNCHANGED chSenders

\* The effect of a send on c by goroutine g that went through.
Sent(c, g) ==
    /\ chSenders' = [chSenders EXCEPT ![c] = @ \cup {g}]
    /\ UNCHANGED <<chClosers, panicked>>

\* The effect of a send on c by goroutine g when c is closed.
SendOnClosed(c, g) ==
    /\ chSenders' = [chSenders EXCEPT ![c] = @ \cup {g}]
    /\ panicked' = "send on closed channel"
    /\ UNCHANGED chClosers

(***************************************************************************)
(* fibonacci (src/concurrency/goroutines_channels.go:461-467)              *)
(***************************************************************************)
RECURSIVE fibonacci(_)
fibonacci(n) == IF n <= 1 THEN n ELSE fibonacci(n - 1) + fibonacci(n - 2)

\* The largest argument fibonacci is called with.
MaxFibArg == 8

\* The same function as the machine that runs it: a stack of frames, each
\* with its argument n, its position and the result a of its first
\* recursive call.
Frame(n) == [n |-> n, pc |-> "entry", a |-> 0]

FibTop == fbStack[Len(fbStack)]

FibPop == SubSeq(fbStack, 1, Len(fbStack) - 1)

FibStart ==
    /\ fbN \in 0..MaxFibArg
    /\ fbStack = <<Frame(fbN)>>
    /\ fbRet = -1

FibIdle ==
    /\ fbN = 0
    /\ fbStack = <<>>
    /\ fbRet = -1

\* if n <= 1 { return n }
FibReturnOne ==
    /\ example = "fibonacci"
    /\ fbStack # <<>>
    /\ FibTop.pc = "entry"
    /\ FibTop.n <= 1
    /\ fbRet' = 1
    /\ fbStack' = FibPop
    /\ UNCHANGED <<fbN, OtherThanFib>>

FibReturnBase ==
    /\ example = "fibonacci"
    /\ fbStack # <<>>
    /\ FibTop.pc = "entry"
    /\ FibTop.n <= 1
    /\ fbRet' = FibTop.n
    /\ fbStack' = FibPop
    /\ UNCHANGED <<fbN, OtherThanFib>>

\* n > 1: the call fibonacci(n-1)
FibCallFirst ==
    /\ example = "fibonacci"
    /\ fbStack # <<>>
    /\ FibTop.pc = "entry"
    /\ FibTop.n > 1
    /\ fbStack' = Append([fbStack EXCEPT ![Len(fbStack)].pc = "first"],
                         Frame(FibTop.n - 1))
    /\ UNCHANGED <<fbN, fbRet, OtherThanFib>>

\* fibonacci(n-1) has returned: keep its value, call fibonacci(n-2)
FibCallSecond ==
    /\ example = "fibonacci"
    /\ fbStack # <<>>
    /\ FibTop.pc = "first"
    /\ fbStack' = Append([fbStack EXCEPT ![Len(fbStack)].pc = "second",
                                         ![Len(fbStack)].a = fbRet],
                         Frame(FibTop.n - 2))
    /\ UNCHANGED <<fbN, fbRet, OtherThanFib>>

\* fibonacci(n-2) has returned: return the sum
FibReturnSum ==
    /\ example = "fibonacci"
    /\ fbStack # <<>>
    /\ FibTop.pc = "second"
    /\ fbRet' = FibTop.a + fbRet
    /\ fbStack' = FibPop
    /\ UNCHANGED <<fbN, OtherThanFib>>

FibNext ==
    \/ FibReturnBase
    \/ FibCallFirst
    \/ FibCallSecond
    \/ FibReturnSum

\* The outermost call has returned.
FibReturned == example = "fibonacci" /\ fbStack = <<>>

(***************************************************************************)
(* WorkerPoolPattern                                                       *)
(***************************************************************************)
numWorkers == 3
numJobs == 8

PoolWorkers == 1..numWorkers
PoolJobs == 1..numJobs

PoolMain == <<"WorkerPoolPattern", 0>>
PoolWorker(w) == <<"poolWorker", w>>

PoolStart ==
    /\ wpJobs = <<>>
    /\ wpResults = <<>>
    /\ wpMainPc = "spawn"
    /\ wpW = 0
    /\ wpJ = 0
    /\ wpR = 0
    /\ wpGot = EmptyBag
    /\ wpPc = [w \in PoolWorkers |-> "unborn"]
    /\ wpJob = [w \in PoolWorkers |-> 0]
    /\ wpRecv = [j \in PoolJobs |-> 0]

PoolRunning == example = "pool" /\ Alive

\* for w := 1; w <= numWorkers; w++ { go poolWorker(w, jobs, results) }
PoolSpawn ==
    /\ PoolRunning
    /\ wpMainPc = "spawn"
    /\ IF wpW < numWorkers
         THEN /\ wpW' = wpW + 1
              /\ wpPc' = [wpPc EXCEPT ![wpW + 1] = "range"]
              /\ UNCHANGED wpMainPc
         ELSE /\ wpMainPc' = "send"
              /\ UNCHANGED <<wpW, wpPc>>
    /\ UNCHANGED <<wpJobs, wpResults, wpJ, wpR, wpGot, wpJob, wpRecv,
                   chanVars, OtherThanPool>>

\* for j := 1; j <= numJobs; j++ { jobs <- j }: a send blocks while the
\* buffer (capacity numJobs) is full.
PoolSendJob ==
    /\ PoolRunning
    /\ wpMainPc = "send"
    /\ IF wpJ < numJobs
         THEN IF IsClosed("wp.jobs")
                THEN /\ SendOnClosed("wp.jobs", PoolMain)
                     /\ UNCHANGED <<wpJobs, wpJ, wpMainPc>>
                ELSE /\ Len(wpJobs) < numJobs
                     /\ wpJobs' = Append(wpJobs, wpJ + 1)
                     /\ wpJ' = wpJ + 1
                     /\ Sent("wp.jobs", PoolMain)
                     /\ UNCHANGED wpMainPc
         ELSE /\ wpMainPc' = "close"
              /\ UNCHANGED <<wpJobs, wpJ, chanVars>>
    /\ UNCHANGED <<wpResults, wpW, wpR, wpGot, wpPc, wpJob, wpRecv,
                   OtherThanPool>>

\* close(jobs)
PoolCloseJobs ==
    /\ PoolRunning
    /\ wpMainPc = "close"
    /\ Close("wp.jobs", PoolMain)
    /\ wpMainPc' = "collect"
    /\ UNCHANGED <<wpJobs, wpResults, wpW, wpJ, wpR, wpGot, wpPc, wpJob,
                   wpRecv, OtherThanPool>>

\* for r := 1; r <= numJobs; r++ { result := <-results }
PoolCollect ==
    /\ PoolRunning
    /\ wpMainPc = "collect"
    /\ IF wpR < numJobs
         THEN /\ wpResults # <<>>
              /\ wpGot' = wpGot (+) SetToBag({Head(wpResults)})
              /\ wpResults' = Tail(wpResults)
              /\ wpR' = wpR + 1
              /\ UNCHANGED wpMainPc
         ELSE /\ wpMainPc' = "done"
              /\ UNCHANGED <<wpResults, wpR, wpGot>>
    /\ UNCHANGED <<wpJobs, wpW, wpJ, wpPc, wpJob, wpRecv, chanVars,
                   OtherThanPool>>

\* for job := range jobs: receive the oldest job, or leave the loop when
\* the channel is closed and drained; blocks on an open empty channel.
PoolRangeKeepsJob(w) ==
    /\ PoolRunning
    /\ wpPc[w] = "range"
    /\ wpJobs # <<>>
    /\ wpJob' = [wpJob EXCEPT ![w] = Head(wpJobs)]
    /\ wpRecv' = [wpRecv EXCEPT ![Head(wpJobs)] = @ + 1]
    /\ wpPc' = [wpPc EXCEPT ![w] = "work"]
    /\ UNCHANGED <<wpJobs, wpResults, wpMainPc, wpW, wpJ, wpR, wpGot,
                   chanVars, OtherThanPool>>

PoolRange(w) ==
    /\ PoolRunning
    /\ wpPc[w] = "range"
    /\ IF wpJobs # <<>>
         THEN /\ wpJob' = [wpJob EXCEPT ![w] = Head(wpJobs)]
              /\ wpJobs' = Tail(wpJobs)
              /\ wpRecv' = [wpRecv EXCEPT ![Head(wpJobs)] = @ + 1]
              /\ wpPc' = [wpPc EXCEPT ![w] = "work"]
         ELSE /\ IsClosed("wp.jobs")
              /\ wpPc' = [wpPc EXCEPT ![w] = "done"]
              /\ UNCHANGED <<wpJob, wpJobs, wpRecv>>
    /\ UNCHANGED <<wpResults, wpMainPc, wpW, wpJ, wpR, wpGot, chanVars,
                   OtherThanPool>>

\* time.Sleep(...); result := fibonacci(job); results <- result: the send
\* blocks while the buffer (capacity numJobs) is full.
PoolWork(w) ==
    /\ PoolRunning
    /\ wpPc[w] = "work"
    /\ IF IsClosed("wp.results")
         THEN /\ SendOnClosed("wp.results", PoolWorker(w))
              /\ UNCHANGED <<wpResults, wpJob, wpPc>>
         ELSE /\ Len(wpResults) < numJobs
              /\ wpResults' = Append(wpResults, fibonacci(wpJob[w]))
              /\ wpJob' = [wpJob EXCEPT ![w] = 0]
              /\ wpPc' = [wpPc EXCEPT ![w] = "range"]
              /\ Sent("wp.results", PoolWorker(w))
    /\ UNCHANGED <<wpJobs, wpMainPc, wpW, wpJ, wpR, wpGot, wpRecv, OtherThanPool>>

PoolNext ==
    \/ PoolSpawn
    \/ PoolSendJob
    \/ PoolCloseJobs
    \/ PoolCollect
    \/ \E w \in PoolWorkers : PoolRange(w)
    \/ \E w \in PoolWorkers : PoolWork(w)

(***************************************************************************)
(* Mutex counter program                                                   *)
(***************************************************************************)
NumGoroutines == 5
\* The loop bound of increment() (1000 in the source), scaled down.
NumIncrements == 2

Goroutines == 1..NumGoroutines

MutexStart ==
    /\ counter = 0
    /\ mu = FALSE
    /\ incPc = [g \in Goroutines |-> "unborn"]
    /\ incI = [g \in Goroutines |-> 0]
    /\ incTmp = [g \in Goroutines |-> 0]
    /\ mxSpawned = 0
    /\ mxMainPc = "spawn"
    /\ mxPrinted = -1

\* main has not returned: when main returns the process and all its
\* goroutines end.
MutexRunning == example = "mutex" /\ mxMainPc # "exit"

\* for i := 0; i < 5; i++ { go increment() }
MutexSpawn ==
    /\ MutexRunning
    /\ mxMainPc = "spawn"
    /\ IF mxSpawned < NumGoroutines
         THEN /\ mxSpawned' = mxSpawned + 1
              /\ incPc' = [incPc EXCEPT ![mxSpawned + 1] =
                              IF 0 < NumIncrements THEN "lock" ELSE "done"]
              /\ UNCHANGED mxMainPc
         ELSE /\ mxMainPc' = "sleep"
              /\ UNCHANGED <<mxSpawned, incPc>>
    /\ UNCHANGED <<counter, mu, incI, incTmp, mxPrinted, OtherThanMutex>>

\* time.Sleep(time.Second): the sleep orders nothing between main and the
\* goroutines; it returns at some point.
MutexSleep ==
    /\ MutexRunning
    /\ mxMainPc = "sleep"
    /\ mxMainPc' = "print"
    /\ UNCHANGED <<counter, mu, incPc, incI, incTmp, mxSpawned, mxPrinted, OtherThanMutex>>

\* fmt.Println("Final Counter:", counter), then main returns.
MutexPrint ==
    /\ MutexRunning
    /\ mxMainPc = "print"
    /\ mxPrinted' = counter
    /\ mxMainPc' = "exit"
    /\ UNCHANGED <<counter, mu, incPc, incI, incTmp, mxSpawned, OtherThanMutex>>

\* mu.Lock(): blocks while the mutex is held.
LockNoMutex(g) ==
    /\ MutexRunning
    /\ incPc[g] = "lock"
    /\ incPc' = [incPc EXCEPT ![g] = "load"]
    /\ UNCHANGED <<counter, mu, incI, incTmp, mxSpawned, mxMainPc, mxPrinted, OtherThanMutex>>

Lock(g) ==
    /\ MutexRunning
    /\ incPc[g] = "lock"
    /\ ~mu
    /\ mu' = TRUE
    /\ incPc' = [incPc EXCEPT ![g] = "load"]
    /\ UNCHANGED <<counter, incI, incTmp, mxSpawned, mxMainPc, mxPrinted, OtherThanMutex>>

\* counter++ : the load of counter
IncLoad(g) ==
    /\ MutexRunning
    /\ incPc[g] = "load"
    /\ incTmp' = [incTmp EXCEPT ![g] = counter]
    /\ incPc' = [incPc EXCEPT ![g] = "store"]
    /\ UNCHANGED <<counter, mu, incI, mxSpawned, mxMainPc, mxPrinted, OtherThanMutex>>

\* counter++ : the store of the incremented value (the loaded value is dead
\* afterwards)
IncStore(g) ==
    /\ MutexRunning
    /\ incPc[g] = "store"
    /\ counter' = incTmp[g] + 1
    /\ incTmp' = [incTmp EXCEPT ![g] = 0]
    /\ incPc' = [incPc EXCEPT ![g] = "unlock"]
    /\ UNCHANGED <<mu, incI, mxSpawned, mxMainPc, mxPrinted, OtherThanMutex>>

\* mu.Unlock(), then i++ and the loop test i < 1000
Unlock(g) ==
    /\ MutexRunning
    /\ incPc[g] = "unlock"
    /\ mu' = FALSE
    /\ incI' = [incI EXCEPT ![g] = incI[g] + 1]
    /\ incPc' = [incPc EXCEPT ![g] =
                    IF incI[g] + 1 < NumIncrements THEN "lock" ELSE "done"]
    /\ UNCHANGED <<counter, incTmp, mxSpawned, mxMainPc, mxPrinted, OtherThanMutex>>

MutexNext ==
    \/ MutexSpawn
    \/ MutexSleep
    \/ MutexPrint
    \/ \E g \in Goroutines : Lock(g)
    \/ \E g \in Goroutines : IncLoad(g)
    \/ \E g \in Goroutines : IncStore(g)
    \/ \E g \in Goroutines : Unlock(g)


(***************************************************************************)
(* functions package: divide (src/functions/functions.go:47-52) and        *)
(* validateEmail (src/functions/functions.go:218-227)                      *)
(***************************************************************************)
\* Go's int is a two's-complement integer of a fixed width.  The width is
\* scaled down here (64 bits on the platforms Go targets for servers).
IntBits == 8

RECURSIVE Pow2(_)
Pow2(k) == IF k = 0 THEN 1 ELSE 2 * Pow2(k - 1)

MinInt == 0 - Pow2(IntBits - 1)
MaxInt == Pow2(IntBits - 1) - 1

\* The value of an int expression: the mathematical result wrapped into
\* the type's range.
Wrap(x) == ((x - MinInt) % Pow2(IntBits)) + MinInt

Abs(x) == IF x < 0 THEN 0 - x ELSE x

\* Integer division truncated toward zero, on mathematical integers.
TruncQuo(x, y) ==
    IF (x < 0) = (y < 0) THEN Abs(x) \div Abs(y) ELSE 0 - (Abs(x) \div Abs(y))

\* Division rounded toward minus infinity.
FloorQuo(x, y) == IF y < 0 THEN (0 - x) \div (0 - y) ELSE x \div y

\* Go's x / y and x % y on ints, y # 0.
GoQuo(x, y) == Wrap(TruncQuo(x, y))
GoRem(x, y) == Wrap(x - y * TruncQuo(x, y))

\* divide with the quotient rounded down instead of truncated
divideFloor(dividend, divisor) ==
    <<Wrap(FloorQuo(dividend, divisor)),
      Wrap(dividend - divisor * FloorQuo(dividend, divisor))>>

\* quotient := dividend / divisor; remainder := dividend % divisor
divide(dividend, divisor) == <<GoQuo(dividend, divisor), GoRem(dividend, divisor)>>

\* The operands divide is tried on: the small ones and the ends of the range.
MaxOperand == 17
Operands == (0 - MaxOperand)..MaxOperand \cup {MinInt, MinInt + 1, MaxInt - 1, MaxInt}

\* strings.Contains(s, substr), on sequences of characters
Contains(s, substr) ==
    \E i \in 0..(Len(s) - Len(substr)) : SubSeq(s, i + 1, i + Len(substr)) = substr

ErrNoAt == "email must contain @ symbol"
ErrNoDomain == "email must contain domain extension"

\* validateEmail with the second check left out
validateEmailAtOnly(email) ==
    IF ~Contains(email, <<"@">>) THEN ErrNoAt ELSE "nil"

validateEmail(email) ==
    IF ~Contains(email, <<"@">>) THEN ErrNoAt
    ELSE IF ~Contains(email, <<".">>) THEN ErrNoDomain
    ELSE "nil"

\* The e-mail strings validateEmail is tried on: every string of up to
\* MaxEmailLen characters of EmailChars, and the two of ErrorHandlingPatterns.
MaxEmailLen == 3
EmailChars == {"@", ".", "a", "-"}

RECURSIVE StringsUpTo(_, _)
StringsUpTo(chars, n) ==
    IF n = 0 THEN {<<>>}
    ELSE LET shorter == StringsUpTo(chars, n - 1)
         IN  shorter \cup {Append(s, c) : s \in shorter, c \in chars}

InvalidEmail == <<"i", "n", "v", "a", "l", "i", "d", "-", "e", "m", "a", "i", "l">>
UserAtExampleCom ==
    <<"u", "s", "e", "r", "@", "e", "x", "a", "m", "p", "l", "e", ".", "c", "o", "m">>

Emails == StringsUpTo(EmailChars, MaxEmailLen) \cup {InvalidEmail, UserAtExampleCom}

FnIdle ==
    /\ fnName = "none"
    /\ fnPc = "call"
    /\ dvDividend = 0
    /\ dvDivisor = 0
    /\ dvResult = <<>>
    /\ emEmail = <<>>
    /\ emErr = ""

FnStart ==
    /\ fnPc = "call"
    /\ dvResult = <<>>
    /\ emErr = ""
    /\ \/ /\ fnName = "divide"
          /\ dvDividend \in Operands
          /\ dvDivisor \in Operands
          /\ emEmail = <<>>
       \/ /\ fnName = "validateEmail"
          /\ emEmail \in Emails
          /\ dvDividend = 0
          /\ dvDivisor = 0

\* quotient, remainder := divide(dividend, divisor); integer division by
\* zero is a run-time panic.
CallDivide ==
    /\ example = "functions"
    /\ fnName = "divide"
    /\ fnPc = "call"
    /\ IF dvDivisor = 0
         THEN /\ fnPc' = "panic"
              /\ UNCHANGED dvResult
         ELSE /\ fnPc' = "returned"
              /\ dvResult' = divide(dvDividend, dvDivisor)
    /\ UNCHANGED <<fnName, dvDividend, dvDivisor, emEmail, emErr, OtherThanFn>>

\* err := validateEmail(email)
CallValidateEmail ==
    /\ example = "functions"
    /\ fnName = "validateEmail"
    /\ fnPc = "call"
    /\ emErr' = validateEmail(emEmail)
    /\ fnPc' = "returned"
    /\ UNCHANGED <<fnName, dvDividend, dvDivisor, dvResult, emEmail, OtherThanFn>>

FnNext ==
    \/ CallDivide
    \/ CallValidateEmail

(***************************************************************************)
(* The menu loop of main (src/main.go:20-104)                              *)
(***************************************************************************)
\* The characters a line typed at the prompt is made of, and the longest
\* line body tried.
MenuChars == {"0", "1", "2", "3", "4", "5", "6", "7", "8", "+", "a", " ", "\t", "\r"}
MaxLineLen == 2

\* What reader.ReadString('\n') returns: the characters up to and including
\* the first newline, or, at the end of the input, what was left (the error
\* is dropped by getUserInput).
Lines ==
    {Append(body, "\n") : body \in StringsUpTo(MenuChars, MaxLineLen)}
        \cup StringsUpTo(MenuChars, MaxLineLen)

\* unicode.IsSpace for the characters above and the newline
IsSpace(c) == c \in {" ", "\t", "\n", "\r"}

RECURSIVE TrimLeft(_)
TrimLeft(s) == IF s # <<>> /\ IsSpace(Head(s)) THEN TrimLeft(Tail(s)) ELSE s

RECURSIVE TrimRight(_)
TrimRight(s) ==
    IF s # <<>> /\ IsSpace(s[Len(s)]) THEN TrimRight(SubSeq(s, 1, Len(s) - 1)) ELSE s

\* strings.TrimSpace
TrimSpace(s) == TrimRight(TrimLeft(s))

\* getUserInput that returns the line as read
getUserInputRaw(input) == input

\* getUserInput: input, _ := reader.ReadString('\n'); return strings.TrimSpace(input)
getUserInput(input) == TrimSpace(input)

\* The value of a string of decimal digits with an optional sign, as
\* strconv.Atoi reads it; -1 when it is no such string.
RECURSIVE DigitsValue(_)
DigitsValue(s) ==
    IF s = <<>> THEN 0
    ELSE LET d == CASE s[Len(s)] = "0" -> 0 [] s[Len(s)] = "1" -> 1
                    [] s[Len(s)] = "2" -> 2 [] s[Len(s)] = "3" -> 3
                    [] s[Len(s)] = "4" -> 4 [] s[Len(s)] = "5" -> 5
                    [] s[Len(s)] = "6" -> 6 [] s[Len(s)] = "7" -> 7
                    [] s[Len(s)] = "8" -> 8 [] OTHER -> -1
             rest == DigitsValue(SubSeq(s, 1, Len(s) - 1))
         IN  IF d < 0 \/ rest < 0 THEN -1 ELSE 10 * rest + d

Atoi(s) ==
    IF s = <<>> THEN -1
    ELSE IF Head(s) = "+" THEN (IF Len(s) = 1 THEN -1 ELSE DigitsValue(Tail(s)))
    ELSE DigitsValue(s)

ModuleNames ==
    <<"runBasicSyntax", "runControlStructures", "runFunctions",
      "runStructsInterfaces", "runBackendConcepts", "runConcurrency",
      "runAllExamples">>

\* executeChoice that reads the choice as a number first
executeChoiceAtoi(choice) ==
    IF Atoi(choice) \in 1..7 THEN ModuleNames[Atoi(choice)] ELSE "invalid"

\* executeChoice: the function the switch on the choice string runs, or
\* "invalid" for the default case, which prints the invalid-choice error.
executeChoice(choice) ==
    CASE choice = <<"1">> -> "runBasicSyntax"
      [] choice = <<"2">> -> "runControlStructures"
      [] choice = <<"3">> -> "runFunctions"
      [] choice = <<"4">> -> "runStructsInterfaces"
      [] choice = <<"5">> -> "runBackendConcepts"
      [] choice = <<"6">> -> "runConcurrency"
      [] choice = <<"7">> -> "runAllExamples"
      [] OTHER -> "invalid"

MenuStart ==
    /\ mnPc = "menu"
    /\ mnInput = <<>>
    /\ mnChoice = <<>>
    /\ mnRan = "none"
    /\ mnInvalid = FALSE
    /\ mnPrev = "none"

\* displayMenu(), at the top of the loop body.  What the previous
\* iteration did is remembered in mnPrev; nothing of it is kept otherwise.
DisplayMenu ==
    /\ example = "menu"
    /\ mnPc = "menu"
    /\ mnPc' = "read"
    /\ mnPrev' = IF mnInvalid THEN "invalid" ELSE mnRan
    /\ mnInput' = <<>>
    /\ mnChoice' = <<>>
    /\ mnRan' = "none"
    /\ mnInvalid' = FALSE
    /\ UNCHANGED OtherThanMenu

\* choice := getUserInput("Enter your choice (1-7, or 0 to exit): ")
ReadChoice ==
    /\ example = "menu"
    /\ mnPc = "read"
    /\ \E line \in Lines :
          /\ mnInput' = line
          /\ mnChoice' = getUserInput(line)
    /\ mnPc' = "check"
    /\ UNCHANGED <<mnRan, mnInvalid, mnPrev, OtherThanMenu>>

\* if choice == "0" { ...; break }
CheckExit ==
    /\ example = "menu"
    /\ mnPc = "check"
    /\ mnPc' = IF mnChoice = <<"0">> THEN "exit" ELSE "execute"
    /\ UNCHANGED <<mnInput, mnChoice, mnRan, mnInvalid, mnPrev, OtherThanMenu>>

\* executeChoice(choice)
ExecuteChoice ==
    /\ example = "menu"
    /\ mnPc = "execute"
    /\ IF executeChoice(mnChoice) = "invalid"
         THEN /\ mnInvalid' = TRUE
              /\ UNCHANGED mnRan
         ELSE /\ mnRan' = executeChoice(mnChoice)
              /\ UNCHANGED mnInvalid
    /\ mnPc' = "pressEnter"
    /\ UNCHANGED <<mnInput, mnChoice, mnPrev, OtherThanMenu>>

\* bufio.NewReader(os.Stdin).ReadBytes('\n'), then the next iteration
PressEnter ==
    /\ example = "menu"
    /\ mnPc = "pressEnter"
    /\ mnPc' = "menu"
    /\ UNCHANGED <<mnInput, mnChoice, mnRan, mnInvalid, mnPrev, OtherThanMenu>>

MenuNext ==
    \/ DisplayMenu
    \/ ReadChoice
    \/ CheckExit
    \/ ExecuteChoice
    \/ PressEnter

(***************************************************************************)
(* ProducerConsumerPattern                                                 *)
(* (src/concurrency/goroutines_channels.go:207-308)                        *)
(***************************************************************************)
pcNumWorkers == 3
\* The number of jobs: 10 in the source, where it is also the capacity of
\* both channels and resultCollector's expectedResults; scaled down here,
\* all four together.
pcNumJobs == 4
pcJobsCap == pcNumJobs
pcResultsCap == pcNumJobs
expectedResults == pcNumJobs

Consumers == 1..pcNumWorkers
PcJobIDs == 1..pcNumJobs

PcMain == <<"ProducerConsumerPattern", 0>>
Producer == <<"producer", 0>>
Consumer(w) == <<"consumer", w>>

\* Job{ID: i, Data: "data-i"}
Job(i) == [ID |-> i, Data |-> <<"data", i>>]
\* A Result whose JobID is 1 whatever the job
ResultFirstID(job) == [JobID |-> 1, Output |-> <<"processed", job.Data>>]

\* Result{JobID: job.ID, Output: "processed-" + job.Data}
Result(job) == [JobID |-> job.ID, Output |-> <<"processed", job.Data>>]
NoJob == [ID |-> 0, Data |-> <<>>]

PcStart ==
    /\ pcJobs = <<>>
    /\ pcResults = <<>>
    /\ pcMainPc = "spawn"
    /\ pcI = 0
    /\ pcWg = 0
    /\ prodPc = "unborn"
    /\ prodI = 0
    /\ consPc = [w \in Consumers |-> "unborn"]
    /\ consJob = [w \in Consumers |-> NoJob]
    /\ colPc = "unborn"
    /\ collected = 0
    /\ pcRecv = [j \in PcJobIDs |-> 0]
    /\ pcSent = [j \in PcJobIDs |-> 0]

PcRunning == example = "producerConsumer" /\ Alive

\* for i := 1; i <= numWorkers; i++ { wg.Add(1); go consumer(i, jobs, results, &wg) }
PcSpawn ==
    /\ PcRunning
    /\ pcMainPc = "spawn"
    /\ IF pcI < pcNumWorkers
         THEN /\ pcI' = pcI + 1
              /\ pcWg' = pcWg + 1
              /\ consPc' = [consPc EXCEPT ![pcI + 1] = "range"]
              /\ UNCHANGED pcMainPc
         ELSE /\ pcMainPc' = "goProducer"
              /\ UNCHANGED <<pcI, pcWg, consPc>>
    /\ UNCHANGED <<pcJobs, pcResults, prodPc, prodI, consJob, colPc, collected,
                   pcRecv, pcSent, chanVars, OtherThanPc>>

\* go producer(jobs, 10)
PcGoProducer ==
    /\ PcRunning
    /\ pcMainPc = "goProducer"
    /\ prodPc' = "send"
    /\ pcMainPc' = "goCollector"
    /\ UNCHANGED <<pcJobs, pcResults, pcI, pcWg, prodI, consPc, consJob, colPc,
                   collected, pcRecv, pcSent, chanVars, OtherThanPc>>

\* go resultCollector(results, 10)
PcGoCollector ==
    /\ PcRunning
    /\ pcMainPc = "goCollector"
    /\ colPc' = "range"
    /\ pcMainPc' = "wait"
    /\ UNCHANGED <<pcJobs, pcResults, pcI, pcWg, prodPc, prodI, consPc, consJob,
                   collected, pcRecv, pcSent, chanVars, OtherThanPc>>

\* wg.Wait() that returns at once
PcWaitNoBlock ==
    /\ PcRunning
    /\ pcMainPc = "wait"
    /\ pcMainPc' = "close"
    /\ UNCHANGED <<pcJobs, pcResults, pcI, pcWg, prodPc, prodI, consPc, consJob,
                   colPc, collected, pcRecv, pcSent, chanVars, OtherThanPc>>

\* wg.Wait(): blocks until the counter is zero
PcWait ==
    /\ PcRunning
    /\ pcMainPc = "wait"
    /\ pcWg = 0
    /\ pcMainPc' = "close"
    /\ UNCHANGED <<pcJobs, pcResults, pcI, pcWg, prodPc, prodI, consPc, consJob,
                   colPc, collected, pcRecv, pcSent, chanVars, OtherThanPc>>

\* close(results); fmt.Println("All jobs processed!")
PcCloseResults ==
    /\ PcRunning
    /\ pcMainPc = "close"
    /\ Close("pc.results", PcMain)
    /\ pcMainPc' = "done"
    /\ UNCHANGED <<pcJobs, pcResults, pcI, pcWg, prodPc, prodI, consPc, consJob,
                   colPc, collected, pcRecv, pcSent, OtherThanPc>>

\* producer: for i := 1; i <= numJobs; i++ { jobs <- job; time.Sleep(...) }
ProducerSend ==
    /\ PcRunning
    /\ prodPc = "send"
    /\ IF prodI < pcNumJobs
         THEN IF IsClosed("pc.jobs")
                THEN /\ SendOnClosed("pc.jobs", Producer)
                     /\ UNCHANGED <<pcJobs, prodI, prodPc>>
                ELSE /\ Len(pcJobs) < pcJobsCap
                     /\ pcJobs' = Append(pcJobs, Job(prodI + 1))
                     /\ prodI' = prodI + 1
                     /\ Sent("pc.jobs", Producer)
                     /\ UNCHANGED prodPc
         ELSE /\ prodPc' = "close"
              /\ UNCHANGED <<pcJobs, prodI, chanVars>>
    /\ UNCHANGED <<pcResults, pcMainPc, pcI, pcWg, consPc, consJob, colPc,
                   collected, pcRecv, pcSent, OtherThanPc>>

\* producer: defer close(jobs)
ProducerClose ==
    /\ PcRunning
    /\ prodPc = "close"
    /\ Close("pc.jobs", Producer)
    /\ prodPc' = "done"
    /\ UNCHANGED <<pcJobs, pcResults, pcMainPc, pcI, pcWg, prodI, consPc, consJob,
                   colPc, collected, pcRecv, pcSent, OtherThanPc>>

\* consumer: for job := range jobs
ConsumerRange(w) ==
    /\ PcRunning
    /\ consPc[w] = "range"
    /\ IF pcJobs # <<>>
         THEN /\ consJob' = [consJob EXCEPT ![w] = Head(pcJobs)]
              /\ pcJobs' = Tail(pcJobs)
              /\ pcRecv' = [pcRecv EXCEPT ![Head(pcJobs).ID] = @ + 1]
              /\ consPc' = [consPc EXCEPT ![w] = "work"]
         ELSE /\ IsClosed("pc.jobs")
              /\ consPc' = [consPc EXCEPT ![w] = "defer"]
              /\ UNCHANGED <<consJob, pcJobs, pcRecv>>
    /\ UNCHANGED <<pcResults, pcMainPc, pcI, pcWg, prodPc, prodI, colPc, collected,
                   pcSent, chanVars, OtherThanPc>>

\* consumer: time.Sleep(processingTime); results <- result
ConsumerWork(w) ==
    /\ PcRunning
    /\ consPc[w] = "work"
    /\ IF IsClosed("pc.results")
         THEN /\ SendOnClosed("pc.results", Consumer(w))
              /\ UNCHANGED <<pcResults, consJob, consPc, pcSent>>
         ELSE /\ Len(pcResults) < pcResultsCap
              /\ pcResults' = Append(pcResults, Result(consJob[w]))
              /\ pcSent' = [pcSent EXCEPT ![Result(consJob[w]).JobID] = @ + 1]
              /\ consJob' = [consJob EXCEPT ![w] = NoJob]
              /\ consPc' = [consPc EXCEPT ![w] = "range"]
              /\ Sent("pc.results", Consumer(w))
    /\ UNCHANGED <<pcJobs, pcMainPc, pcI, pcWg, prodPc, prodI, colPc, collected,
                   pcRecv, OtherThanPc>>

\* consumer: defer wg.Done(); a negative counter panics
ConsumerDone(w) ==
    /\ PcRunning
    /\ consPc[w] = "defer"
    /\ pcWg' = pcWg - 1
    /\ panicked' = IF pcWg - 1 < 0 THEN "sync: negative WaitGroup counter" ELSE panicked
    /\ consPc' = [consPc EXCEPT ![w] = "done"]
    /\ UNCHANGED <<pcJobs, pcResults, pcMainPc, pcI, prodPc, prodI, consJob, colPc,
                   collected, pcRecv, pcSent, chClosers, chSenders, OtherThanPc>>

\* resultCollector: for result := range results { collected++; if collected
\* >= expectedResults { break } }
CollectorRange ==
    /\ PcRunning
    /\ colPc = "range"
    /\ IF pcResults # <<>>
         THEN /\ pcResults' = Tail(pcResults)
              /\ collected' = collected + 1
              /\ colPc' = IF collected + 1 >= expectedResults THEN "report" ELSE "range"
         ELSE /\ IsClosed("pc.results")
              /\ colPc' = "report"
              /\ UNCHANGED <<pcResults, collected>>
    /\ UNCHANGED <<pcJobs, pcMainPc, pcI, pcWg, prodPc, prodI, consPc, consJob,
                   pcRecv, pcSent, chanVars, OtherThanPc>>

\* resultCollector: avgDuration := totalDuration / time.Duration(collected);
\* integer division by zero panics
CollectorReport ==
    /\ PcRunning
    /\ colPc = "report"
    /\ panicked' = IF collected = 0 THEN "integer divide by zero" ELSE panicked
    /\ colPc' = "done"
    /\ UNCHANGED <<pcJobs, pcResults, pcMainPc, pcI, pcWg, prodPc, prodI, consPc,
                   consJob, collected, pcRecv, pcSent, chClosers, chSenders,
                   OtherThanPc>>

PcNext ==
    \/ PcSpawn
    \/ PcGoProducer
    \/ PcGoCollector
    \/ PcWait
    \/ PcCloseResults
    \/ ProducerSend
    \/ ProducerClose
    \/ \E w \in Consumers : ConsumerRange(w)
    \/ \E w \in Consumers : ConsumerWork(w)
    \/ \E w \in Consumers : ConsumerDone(w)
    \/ CollectorRange
    \/ CollectorReport

(***************************************************************************)
(* PipelinePattern (src/concurrency/goroutines_channels.go:350-411).       *)
(* The three channels are unbuffered: a send and the matching receive      *)
(* are one step of both goroutines.                                        *)
(***************************************************************************)
pipeStart == 1
pipeEnd == 10

PipeMain == <<"PipelinePattern", 0>>
Generator == <<"generateNumbers", 0>>
Squarer == <<"squareNumbers", 0>>
Filter == <<"filterEven", 0>>

PipeInit ==
    /\ plMainPc = "generate"
    /\ genPc = "unborn"
    /\ genI = 0
    /\ sqPc = "unborn"
    /\ sqVal = 0
    /\ flPc = "unborn"
    /\ flVal = 0
    /\ plVal = 0
    /\ plOut = <<>>

PipeRunning == example = "pipeline" /\ Alive

\* numbers := generateNumbers(1, 10): make the channel, start the goroutine
PipeGenerate ==
    /\ PipeRunning
    /\ plMainPc = "generate"
    /\ genI' = pipeStart
    /\ genPc' = IF pipeStart <= pipeEnd THEN "send" ELSE "close"
    /\ plMainPc' = "square"
    /\ UNCHANGED <<sqPc, sqVal, flPc, flVal, plVal, plOut, chanVars, OtherThanPipe>>

\* squared := squareNumbers(numbers)
PipeSquare ==
    /\ PipeRunning
    /\ plMainPc = "square"
    /\ sqPc' = "recv"
    /\ plMainPc' = "filter"
    /\ UNCHANGED <<genPc, genI, sqVal, flPc, flVal, plVal, plOut, chanVars,
                   OtherThanPipe>>

\* filtered := filterEven(squared)
PipeFilter ==
    /\ PipeRunning
    /\ plMainPc = "filter"
    /\ flPc' = "recv"
    /\ plMainPc' = "range"
    /\ UNCHANGED <<genPc, genI, sqPc, sqVal, flVal, plVal, plOut, chanVars,
                   OtherThanPipe>>

\* generateNumbers: out <- i, received by squareNumbers' range as n
GenSend ==
    /\ PipeRunning
    /\ genPc = "send"
    /\ IF IsClosed("numbers")
         THEN /\ SendOnClosed("numbers", Generator)
              /\ UNCHANGED <<genPc, sqPc, sqVal>>
         ELSE /\ sqPc = "recv"
              /\ sqVal' = genI
              /\ sqPc' = "square"
              /\ genPc' = "sleep"
              /\ Sent("numbers", Generator)
    /\ UNCHANGED <<plMainPc, genI, flPc, flVal, plVal, plOut, OtherThanPipe>>

\* generateNumbers: time.Sleep(100 * time.Millisecond); i++; i <= end
GenSleep ==
    /\ PipeRunning
    /\ genPc = "sleep"
    /\ genI' = genI + 1
    /\ genPc' = IF genI + 1 <= pipeEnd THEN "send" ELSE "close"
    /\ UNCHANGED <<plMainPc, sqPc, sqVal, flPc, flVal, plVal, plOut, chanVars,
                   OtherThanPipe>>

\* generateNumbers: defer close(out)
GenClose ==
    /\ PipeRunning
    /\ genPc = "close"
    /\ Close("numbers", Generator)
    /\ genPc' = "done"
    /\ UNCHANGED <<plMainPc, genI, sqPc, sqVal, flPc, flVal, plVal, plOut,
                   OtherThanPipe>>

\* squareNumbers: the range over in ends when in is closed
SqEnd ==
    /\ PipeRunning
    /\ sqPc = "recv"
    /\ IsClosed("numbers")
    /\ sqPc' = "close"
    /\ UNCHANGED <<plMainPc, genPc, genI, sqVal, flPc, flVal, plVal, plOut,
                   chanVars, OtherThanPipe>>

\* squareNumbers: squared := n * n
SqCompute ==
    /\ PipeRunning
    /\ sqPc = "square"
    /\ sqVal' = sqVal * sqVal
    /\ sqPc' = "send"
    /\ UNCHANGED <<plMainPc, genPc, genI, flPc, flVal, plVal, plOut, chanVars,
                   OtherThanPipe>>

\* squareNumbers: out <- squared, received by filterEven's range as n
SqSend ==
    /\ PipeRunning
    /\ sqPc = "send"
    /\ IF IsClosed("squared")
         THEN /\ SendOnClosed("squared", Squarer)
              /\ UNCHANGED <<sqPc, sqVal, flPc, flVal>>
         ELSE /\ flPc = "recv"
              /\ flVal' = sqVal
              /\ flPc' = "test"
              /\ sqVal' = 0
              /\ sqPc' = "sleep"
              /\ Sent("squared", Squarer)
    /\ UNCHANGED <<plMainPc, genPc, genI, plVal, plOut, OtherThanPipe>>

\* squareNumbers: time.Sleep(50 * time.Millisecond)
SqSleep ==
    /\ PipeRunning
    /\ sqPc = "sleep"
    /\ sqPc' = "recv"
    /\ UNCHANGED <<plMainPc, genPc, genI, sqVal, flPc, flVal, plVal, plOut,
                   chanVars, OtherThanPipe>>

\* squareNumbers: defer close(out)
SqClose ==
    /\ PipeRunning
    /\ sqPc = "close"
    /\ Close("squared", Squarer)
    /\ sqPc' = "done"
    /\ UNCHANGED <<plMainPc, genPc, genI, sqVal, flPc, flVal, plVal, plOut,
                   OtherThanPipe>>

\* filterEven: the range over in ends when in is closed
FlEnd ==
    /\ PipeRunning
    /\ flPc = "recv"
    /\ IsClosed("squared")
    /\ flPc' = "close"
    /\ UNCHANGED <<plMainPc, genPc, genI, sqPc, sqVal, flVal, plVal, plOut,
                   chanVars, OtherThanPipe>>

\* filterEven that passes every number on
FlTestAll ==
    /\ PipeRunning
    /\ flPc = "test"
    /\ flPc' = "send"
    /\ UNCHANGED <<plMainPc, genPc, genI, sqPc, sqVal, flVal, plVal, plOut,
                   chanVars, OtherThanPipe>>

\* filterEven: if n%2 == 0 { ... out <- n } else { ... }
FlTest ==
    /\ PipeRunning
    /\ flPc = "test"
    /\ IF flVal % 2 = 0
         THEN /\ flPc' = "send"
              /\ UNCHANGED flVal
         ELSE /\ flPc' = "sleep"
              /\ flVal' = 0
    /\ UNCHANGED <<plMainPc, genPc, genI, sqPc, sqVal, plVal, plOut, chanVars,
                   OtherThanPipe>>

\* filterEven: out <- n, received by PipelinePattern's range as result
FlSend ==
    /\ PipeRunning
    /\ flPc = "send"
    /\ IF IsClosed("filtered")
         THEN /\ SendOnClosed("filtered", Filter)
              /\ UNCHANGED <<flPc, flVal, plMainPc, plVal>>
         ELSE /\ plMainPc = "range"
              /\ plVal' = flVal
              /\ plMainPc' = "print"
              /\ flVal' = 0
              /\ flPc' = "sleep"
              /\ Sent("filtered", Filter)
    /\ UNCHANGED <<genPc, genI, sqPc, sqVal, plOut, OtherThanPipe>>

\* filterEven: time.Sleep(30 * time.Millisecond)
FlSleep ==
    /\ PipeRunning
    /\ flPc = "sleep"
    /\ flPc' = "recv"
    /\ UNCHANGED <<plMainPc, genPc, genI, sqPc, sqVal, flVal, plVal, plOut,
                   chanVars, OtherThanPipe>>

\* filterEven: defer close(out)
FlClose ==
    /\ PipeRunning
    /\ flPc = "close"
    /\ Close("filtered", Filter)
    /\ flPc' = "done"
    /\ UNCHANGED <<plMainPc, genPc, genI, sqPc, sqVal, flVal, plVal, plOut,
                   OtherThanPipe>>

\* PipelinePattern: fmt.Printf("  %d\n", result)
PipePrint ==
    /\ PipeRunning
    /\ plMainPc = "print"
    /\ plOut' = Append(plOut, plVal)
    /\ plVal' = 0
    /\ plMainPc' = "range"
    /\ UNCHANGED <<genPc, genI, sqPc, sqVal, flPc, flVal, chanVars, OtherThanPipe>>

\* PipelinePattern: the range over filtered ends when filtered is closed
PipeEnd ==
    /\ PipeRunning
    /\ plMainPc = "range"
    /\ IsClosed("filtered")
    /\ plMainPc' = "done"
    /\ UNCHANGED <<genPc, genI, sqPc, sqVal, flPc, flVal, plVal, plOut, chanVars,
                   OtherThanPipe>>

PipeNext ==
    \/ PipeGenerate
    \/ PipeSquare
    \/ PipeFilter
    \/ GenSend
    \/ GenSleep
    \/ GenClose
    \/ SqEnd
    \/ SqCompute
    \/ SqSend
    \/ SqSleep
    \/ SqClose
    \/ FlEnd
    \/ FlTest
    \/ FlSend
    \/ FlSleep
    \/ FlClose
    \/ PipePrint
    \/ PipeEnd

(***************************************************************************)
(* The two WaitGroup programs: WaitGroupExamples                           *)
(* (src/concurrency/goroutines_channels.go:58-86) and the standalone       *)
(* program of src/waitGroup/main.go.  Both start five workers, each after  *)
(* a wg.Add(1), and wait for them with wg.Wait().                          *)
(***************************************************************************)
wgNumWorkers == 5

\* The worker IDs: i := 1; i <= numWorkers in WaitGroupExamples,
\* i := 0; i < 5 in waitGroup/main.go.
WgFirstID(e) == IF e = "waitGroupMain" THEN 0 ELSE 1
WgIDs(e) == WgFirstID(e)..(WgFirstID(e) + wgNumWorkers - 1)
WgExamples == {"waitGroupExamples", "waitGroupMain"}

\* The lines of the programs' output that are kept: each worker's completion
\* message and the line printed after wg.Wait().
WgCompleted(id) == <<"completed", id>>
WgFinalLine(e) ==
    IF e = "waitGroupMain" THEN <<"Main code done">> ELSE <<"All workers completed!">>

WgStart(e) ==
    /\ wgCounter = 0
    /\ wgMainPc = "loop"
    /\ wgI = WgFirstID(e)
    /\ wgPc = [id \in WgIDs(e) |-> "unborn"]
    /\ wgOut = <<>>

WgRunning == example \in WgExamples /\ Alive

\* for i ... { wg.Add(1); go worker(i) }
WgSpawn ==
    /\ WgRunning
    /\ wgMainPc = "loop"
    /\ IF wgI \in WgIDs(example)
         THEN /\ wgCounter' = wgCounter + 1
              /\ wgPc' = [wgPc EXCEPT ![wgI] = "start"]
              /\ wgI' = wgI + 1
              /\ UNCHANGED wgMainPc
         ELSE /\ wgMainPc' = "wait"
              /\ UNCHANGED <<wgCounter, wgPc, wgI>>
    /\ UNCHANGED <<wgOut, chanVars, OtherThanWg>>

\* wg.Wait() that returns at once
WgWaitNoBlock ==
    /\ WgRunning
    /\ wgMainPc = "wait"
    /\ wgMainPc' = "print"
    /\ UNCHANGED <<wgCounter, wgI, wgPc, wgOut, chanVars, OtherThanWg>>

\* wg.Wait(): blocks until the counter is zero
WgWait ==
    /\ WgRunning
    /\ wgMainPc = "wait"
    /\ wgCounter = 0
    /\ wgMainPc' = "print"
    /\ UNCHANGED <<wgCounter, wgI, wgPc, wgOut, chanVars, OtherThanWg>>

\* fmt.Println("All workers completed!") / fmt.Println("Main code done")
WgPrintFinal ==
    /\ WgRunning
    /\ wgMainPc = "print"
    /\ wgOut' = Append(wgOut, WgFinalLine(example))
    /\ wgMainPc' = "done"
    /\ UNCHANGED <<wgCounter, wgI, wgPc, chanVars, OtherThanWg>>

\* worker: the starting message, then time.Sleep
WgWorkerStart(id) ==
    /\ WgRunning
    /\ wgPc[id] = "start"
    /\ wgPc' = [wgPc EXCEPT ![id] = "finish"]
    /\ UNCHANGED <<wgCounter, wgMainPc, wgI, wgOut, chanVars, OtherThanWg>>

\* worker: the completion message, "Work completed" / "done"
WgWorkerFinish(id) ==
    /\ WgRunning
    /\ wgPc[id] = "finish"
    /\ wgOut' = Append(wgOut, WgCompleted(id))
    /\ wgPc' = [wgPc EXCEPT ![id] = "defer"]
    /\ UNCHANGED <<wgCounter, wgMainPc, wgI, chanVars, OtherThanWg>>

\* worker: defer wg.Done(); a negative counter panics
WgWorkerDone(id) ==
    /\ WgRunning
    /\ wgPc[id] = "defer"
    /\ wgCounter' = wgCounter - 1
    /\ panicked' = IF wgCounter - 1 < 0 THEN "sync: negative WaitGroup counter" ELSE panicked
    /\ wgPc' = [wgPc EXCEPT ![id] = "done"]
    /\ UNCHANGED <<wgMainPc, wgI, wgOut, chClosers, chSenders, OtherThanWg>>

\* The program runs until main returns: in waitGroup/main.go that ends the
\* process, in WaitGroupExamples every worker is done by then.
WgNext ==
    \/ WgSpawn
    \/ WgWait
    \/ WgPrintFinal
    \/ \E id \in DOMAIN wgPc : WgWorkerStart(id)
    \/ \E id \in DOMAIN wgPc : WgWorkerFinish(id)
    \/ \E id \in DOMAIN wgPc : WgWorkerDone(id)

(***************************************************************************)
(* rateLimitMiddleware (src/backend/http_server.go:379-410), its           *)
(* invocations one after the other                                         *)
(***************************************************************************)
\* The limit of the check len(requests[clientIP]) >= 10: 10 in the source,
\* scaled down here.
MaxRequestsPerMinute == 3
\* Time is counted in ticks; time.Minute is this many ticks.
TicksPerMinute == 2
\* The clock stops here.
RlMaxTime == TicksPerMinute + 1

\* r.RemoteAddr, which the HTTP server sets to "IP:port": two connections
\* of one client and one connection of another.
RemoteAddrs ==
    {<<"10.0.0.1", "5000">>, <<"10.0.0.1", "5001">>, <<"10.0.0.2", "5000">>}

\* The host part of a RemoteAddr
HostOf(addr) == addr[1]
ClientIPs == {HostOf(addr) : addr \in RemoteAddrs}

\* requests[key], nil for a key that is not in the map
Lookup(requests, key) == IF key \in DOMAIN requests THEN requests[key] ELSE <<>>

\* requests[key] = value
Store(requests, key, value) ==
    [k \in DOMAIN requests \cup {key} |-> IF k = key THEN value ELSE requests[k]]

\* The reqTimes with now.Sub(reqTime) <= time.Minute, in order
RECURSIVE validRequests(_, _)
validRequests(reqTimes, now) ==
    IF reqTimes = <<>> THEN <<>>
    ELSE IF now - Head(reqTimes) <= TicksPerMinute
           THEN <<Head(reqTimes)>> \o validRequests(Tail(reqTimes), now)
           ELSE validRequests(Tail(reqTimes), now)

\* The map after the cleaning step: only an existing entry is rewritten.
Cleaned(requests, key, now) ==
    IF key \in DOMAIN requests
      THEN Store(requests, key, validRequests(requests[key], now))
      ELSE requests

NoRequest == [addr |-> <<>>, at |-> -1, status |-> 0]

RateLimitStart ==
    /\ rlRequests = [k \in {} |-> <<>>]
    /\ rlNow = 0
    /\ rlPassed = [ip \in ClientIPs |-> <<>>]
    /\ rlLast = NoRequest

\* clientIP := r.RemoteAddr
clientIPOf(addr) == addr

\* The handler, from its first statement to its return, for a request with
\* the given RemoteAddr arriving at time now: 429 when the cleaned entry
\* has reached the limit, and otherwise the request is recorded and passed
\* to next (status 200).
ServeHTTP(addr, now) ==
    LET clientIP == clientIPOf(addr)
        cleaned == Cleaned(rlRequests, clientIP, now)
    IN  /\ rlNow' = now
        /\ IF Len(Lookup(cleaned, clientIP)) >= MaxRequestsPerMinute
             THEN /\ rlRequests' = cleaned
                  /\ rlLast' = [addr |-> addr, at |-> now, status |-> 429]
                  /\ UNCHANGED rlPassed
             ELSE /\ rlRequests' =
                        Store(cleaned, clientIP, Append(Lookup(cleaned, clientIP), now))
                  /\ rlLast' = [addr |-> addr, at |-> now, status |-> 200]
                  /\ rlPassed' = [rlPassed EXCEPT ![HostOf(addr)] = Append(@, now)]

\* A request arrives: now := time.Now() does not go back.
RateLimitRequest ==
    /\ example = "rateLimit"
    /\ \E addr \in RemoteAddrs :
          \E now \in rlNow..(IF rlNow < RlMaxTime THEN rlNow + 1 ELSE rlNow) :
              ServeHTTP(addr, now)
    /\ UNCHANGED OtherThanRateLimit

RateLimitNext == RateLimitRequest

(***************************************************************************)
(* rateLimitMiddleware, its invocations running concurrently: net/http     *)
(* serves every connection in its own goroutine, and the handler's map     *)
(* accesses are separate steps with nothing to order them.                 *)
(***************************************************************************)
\* The goroutines that run the handler, each one request after the other.
Handlers == {"h1", "h2"}
\* The number of requests looked at.
RcMaxRequests == 4

\* The requests all come from one connection of one client.
RcAddrs == {<<"10.0.0.1", "5000">>}

RcIdle == [pc |-> "idle", addr |-> <<>>, now |-> 0, times |-> <<>>]

RcStart ==
    /\ rcH = [h \in Handlers |-> RcIdle]
    /\ rcWriters = {}
    /\ rcFatal = ""
    /\ rcCount = 0
    /\ rcLost = FALSE
    /\ rcOverlapped = FALSE

RcRunning == example = "rateLimitConcurrent" /\ rcFatal = ""

\* A map access while another goroutine is writing the map is a data race:
\* the runtime may detect it and end the program (TRUE), or not (FALSE).
RaceOutcomes(h) == IF rcWriters \ {h} # {} THEN {TRUE, FALSE} ELSE {FALSE}

\* The number of occurrences of t in times
Occurrences(times, t) == Cardinality({i \in 1..Len(times) : times[i] = t})

\* Writing new over old drops a recorded request that is not older than a
\* minute at the writer's now.
LosesRecord(old, new, now) ==
    \E i \in 1..Len(old) :
        /\ now - old[i] <= TicksPerMinute
        /\ Occurrences(new, old[i]) < Occurrences(old, old[i])

\* The handler is called: clientIP := r.RemoteAddr; now := time.Now()
RcArrive(h) ==
    /\ RcRunning
    /\ rcH[h].pc = "idle"
    /\ rcCount < RcMaxRequests
    /\ rcCount' = rcCount + 1
    /\ \E addr \in RcAddrs :
          \E now \in rlNow..(IF rlNow < RlMaxTime THEN rlNow + 1 ELSE rlNow) :
              /\ rlNow' = now
              /\ rcH' = [rcH EXCEPT ![h] =
                            [pc |-> "lookup", addr |-> clientIPOf(addr), now |-> now,
                             times |-> <<>>]]
              /\ rcOverlapped' =
                    (rcOverlapped \/ \E g \in Handlers \ {h} :
                                        rcH[g].pc # "idle" /\ rcH[g].addr = clientIPOf(addr))
    /\ UNCHANGED <<rlRequests, rlPassed, rlLast, rcWriters, rcFatal, rcLost,
                   OtherThanRc>>

\* if reqTimes, exists := requests[clientIP]; exists
RcLookup(h) ==
    /\ RcRunning
    /\ rcH[h].pc = "lookup"
    /\ \E detected \in RaceOutcomes(h) :
          IF detected
            THEN /\ rcFatal' = "fatal error: concurrent map read and map write"
                 /\ UNCHANGED rcH
            ELSE /\ rcH' = [rcH EXCEPT ![h].times = Lookup(rlRequests, rcH[h].addr),
                                       ![h].pc = IF rcH[h].addr \in DOMAIN rlRequests
                                                   THEN "clean" ELSE "check"]
                 /\ UNCHANGED rcFatal
    /\ UNCHANGED <<rlRequests, rlNow, rlPassed, rlLast, rcWriters, rcCount, rcLost,
                   rcOverlapped, OtherThanRc>>

\* The assignment requests[key] = value by h begins.
MapAssign(h, value, detected, after) ==
    IF detected
      THEN /\ rcFatal' = "fatal error: concurrent map writes"
           /\ UNCHANGED <<rlRequests, rcH, rcWriters, rcLost>>
      ELSE /\ rlRequests' = Store(rlRequests, rcH[h].addr, value)
           /\ rcLost' = (rcLost \/ LosesRecord(Lookup(rlRequests, rcH[h].addr), value,
                                               rcH[h].now))
           /\ rcWriters' = rcWriters \cup {h}
           /\ rcH' = [rcH EXCEPT ![h].pc = after, ![h].times = <<>>]
           /\ UNCHANGED rcFatal

\* the loop over reqTimes; requests[clientIP] = validRequests
RcClean(h) ==
    /\ RcRunning
    /\ rcH[h].pc = "clean"
    /\ \E detected \in RaceOutcomes(h) :
          MapAssign(h, validRequests(rcH[h].times, rcH[h].now), detected, "cleaned")
    /\ UNCHANGED <<rlNow, rlPassed, rlLast, rcCount, rcOverlapped, OtherThanRc>>

\* The assignment by h is complete.
RcAssigned(h) ==
    /\ RcRunning
    /\ rcH[h].pc \in {"cleaned", "stored"}
    /\ rcWriters' = rcWriters \ {h}
    /\ rcH' = [rcH EXCEPT ![h].pc = IF rcH[h].pc = "cleaned" THEN "check" ELSE "next"]
    /\ UNCHANGED <<rlRequests, rlNow, rlPassed, rlLast, rcFatal, rcCount, rcLost,
                   rcOverlapped, OtherThanRc>>

\* The limit check with > for >=
RcCheckOver(h) ==
    /\ RcRunning
    /\ rcH[h].pc = "check"
    /\ rcH' = [rcH EXCEPT ![h] =
                  IF Len(Lookup(rlRequests, rcH[h].addr)) > MaxRequestsPerMinute
                    THEN RcIdle ELSE [@ EXCEPT !.pc = "load"]]
    /\ UNCHANGED <<rlRequests, rlNow, rlPassed, rlLast, rcWriters, rcFatal, rcCount,
                   rcLost, rcOverlapped, OtherThanRc>>

\* if len(requests[clientIP]) >= 10 { http.Error(w, ..., 429); return }
RcCheck(h) ==
    /\ RcRunning
    /\ rcH[h].pc = "check"
    /\ \E detected \in RaceOutcomes(h) :
          IF detected
            THEN /\ rcFatal' = "fatal error: concurrent map read and map write"
                 /\ UNCHANGED rcH
            ELSE /\ rcH' = [rcH EXCEPT ![h] =
                               IF Len(Lookup(rlRequests, rcH[h].addr)) >= MaxRequestsPerMinute
                                 THEN RcIdle ELSE [@ EXCEPT !.pc = "load"]]
                 /\ UNCHANGED rcFatal
    /\ UNCHANGED <<rlRequests, rlNow, rlPassed, rlLast, rcWriters, rcCount, rcLost,
                   rcOverlapped, OtherThanRc>>

\* append(requests[clientIP], now): the map is read
RcLoad(h) ==
    /\ RcRunning
    /\ rcH[h].pc = "load"
    /\ \E detected \in RaceOutcomes(h) :
          IF detected
            THEN /\ rcFatal' = "fatal error: concurrent map read and map write"
                 /\ UNCHANGED rcH
            ELSE /\ rcH' = [rcH EXCEPT ![h].times = Lookup(rlRequests, rcH[h].addr),
                                       ![h].pc = "store"]
                 /\ UNCHANGED rcFatal
    /\ UNCHANGED <<rlRequests, rlNow, rlPassed, rlLast, rcWriters, rcCount, rcLost,
                   rcOverlapped, OtherThanRc>>

\* requests[clientIP] = append(..., now)
RcStore(h) ==
    /\ RcRunning
    /\ rcH[h].pc = "store"
    /\ \E detected \in RaceOutcomes(h) :
          MapAssign(h, Append(rcH[h].times, rcH[h].now), detected, "stored")
    /\ UNCHANGED <<rlNow, rlPassed, rlLast, rcCount, rcOverlapped, OtherThanRc>>

\* next.ServeHTTP(w, r), and the handler returns
RcServeNext(h) ==
    /\ RcRunning
    /\ rcH[h].pc = "next"
    /\ rlPassed' = [rlPassed EXCEPT ![HostOf(rcH[h].addr)] = Append(@, rcH[h].now)]
    /\ rcH' = [rcH EXCEPT ![h] = RcIdle]
    /\ UNCHANGED <<rlRequests, rlNow, rlLast, rcWriters, rcFatal, rcCount, rcLost,
                   rcOverlapped, OtherThanRc>>

RcNext ==
    \E h \in Handlers :
        \/ RcArrive(h)
        \/ RcLookup(h)
        \/ RcClean(h)
        \/ RcAssigned(h)
        \/ RcCheck(h)
        \/ RcLoad(h)
        \/ RcStore(h)
        \/ RcServeNext(h)

(***************************************************************************)
(* The middleware of the backend package                                   *)
(* (src/backend/http_server.go:229-286) and the chains MiddlewareExamples  *)
(* builds from it (336-360).  Strings are sequences of the pieces below.   *)
(***************************************************************************)
HeaderPieces == {"Bearer", "bearer", " ", "valid-token-123", "x"}
MaxHeaderLen == 4
\* What r.Header.Get("Authorization") can return; "" when there is no header.
AuthHeaders == StringsUpTo(HeaderPieces, MaxHeaderLen)
Methods == {"GET", "POST", "OPTIONS"}

\* strings.HasPrefix
HasPrefix(s, prefix) ==
    Len(s) >= Len(prefix) /\ SubSeq(s, 1, Len(prefix)) = prefix

\* strings.TrimPrefix
TrimPrefix(s, prefix) ==
    IF HasPrefix(s, prefix) THEN SubSeq(s, Len(prefix) + 1, Len(s)) ELSE s

\* authMiddleware that checks the prefix only
authorizePrefixOnly(authHeader) ==
    IF ~HasPrefix(authHeader, <<"Bearer", " ">>) THEN "Unauthorized" ELSE "next"

\* authMiddleware's decision: the body of the 401 response, or "next" when
\* it goes on to next.ServeHTTP.
authorize(authHeader) ==
    IF ~HasPrefix(authHeader, <<"Bearer", " ">>) THEN "Unauthorized"
    ELSE IF TrimPrefix(authHeader, <<"Bearer", " ">>) # <<"valid-token-123">>
           THEN "Invalid token"
           ELSE "next"

\* protectedHandler with authMiddleware outermost
protectedAuthFirst == <<"auth", "logging", "cors", "handler">>

\* protectedHandler := loggingMiddleware(corsMiddleware(authMiddleware(handler)))
protectedHandler == <<"logging", "cors", "auth", "handler">>
\* publicHandler := loggingMiddleware(corsMiddleware(handler))
publicHandler == <<"logging", "cors", "handler">>
\* authMiddleware(handler) by itself
authHandler == <<"auth", "handler">>
Chains == {protectedHandler, publicHandler, authHandler}

MwStart ==
    /\ mwChain \in Chains
    /\ mwReq \in [method : Methods, auth : AuthHeaders]
    /\ mwStack = <<[layer |-> 1, pc |-> "pre"]>>
    /\ mwTrace = <<>>
    /\ mwStatus = 0
    /\ mwBody = ""
    /\ mwCors = FALSE
    /\ mwCalls = [i \in 1..4 |-> 0]

MwIdle ==
    /\ mwChain = <<>>
    /\ mwReq = [method |-> "GET", auth |-> <<>>]
    /\ mwStack = <<>>
    /\ mwTrace = <<>>
    /\ mwStatus = 0
    /\ mwBody = ""
    /\ mwCors = FALSE
    /\ mwCalls = [i \in 1..4 |-> 0]

\* The handler of the chain that is running: the innermost call.
MwTop == mwStack[Len(mwStack)]
MwAt(name, pc) ==
    /\ example = "middleware"
    /\ mwStack # <<>>
    /\ mwChain[MwTop.layer] = name
    /\ MwTop.pc = pc

\* next.ServeHTTP(w, r): the caller waits for the call to return.
MwCallNext ==
    /\ mwStack' = Append([mwStack EXCEPT ![Len(mwStack)].pc = "post"],
                         [layer |-> MwTop.layer + 1, pc |-> "pre"])
    /\ mwCalls' = [mwCalls EXCEPT ![MwTop.layer] = @ + 1]

\* return
MwPop ==
    /\ mwStack' = SubSeq(mwStack, 1, Len(mwStack) - 1)
    /\ UNCHANGED mwCalls

\* loggingMiddleware: log.Printf("Started ..."); next.ServeHTTP(w, r)
MwLoggingStart ==
    /\ MwAt("logging", "pre")
    /\ mwTrace' = Append(mwTrace, "Logging (start)")
    /\ MwCallNext
    /\ UNCHANGED <<mwChain, mwReq, mwStatus, mwBody, mwCors, OtherThanMw>>

\* loggingMiddleware: log.Printf("Completed ...")
MwLoggingDone ==
    /\ MwAt("logging", "post")
    /\ mwTrace' = Append(mwTrace, "Logging (completion)")
    /\ MwPop
    /\ UNCHANGED <<mwChain, mwReq, mwStatus, mwBody, mwCors, OtherThanMw>>

\* corsMiddleware: the three headers; 200 for OPTIONS, next otherwise
MwCors ==
    /\ MwAt("cors", "pre")
    /\ mwTrace' = Append(mwTrace, "CORS (headers set)")
    /\ mwCors' = TRUE
    /\ IF mwReq.method = "OPTIONS"
         THEN /\ mwStatus' = 200
              /\ MwPop
         ELSE /\ MwCallNext
              /\ UNCHANGED mwStatus
    /\ UNCHANGED <<mwChain, mwReq, mwBody, OtherThanMw>>

\* authMiddleware: 401 or next
MwAuth ==
    /\ MwAt("auth", "pre")
    /\ mwTrace' = Append(mwTrace, "Auth (token check)")
    /\ IF authorize(mwReq.auth) = "next"
         THEN /\ MwCallNext
              /\ UNCHANGED <<mwStatus, mwBody>>
         ELSE /\ mwStatus' = 401
              /\ mwBody' = authorize(mwReq.auth)
              /\ MwPop
    /\ UNCHANGED <<mwChain, mwReq, mwCors, OtherThanMw>>

\* corsMiddleware and authMiddleware return when next has returned.
MwReturn ==
    /\ \/ MwAt("cors", "post")
       \/ MwAt("auth", "post")
    /\ MwPop
    /\ UNCHANGED <<mwChain, mwReq, mwTrace, mwStatus, mwBody, mwCors, OtherThanMw>>

\* handler: the JSON response
MwHandler ==
    /\ MwAt("handler", "pre")
    /\ mwTrace' = Append(mwTrace, "Handler")
    /\ mwStatus' = 200
    /\ mwBody' = "Hello from protected endpoint!"
    /\ MwPop
    /\ UNCHANGED <<mwChain, mwReq, mwCors, OtherThanMw>>

MwNext ==
    \/ MwLoggingStart
    \/ MwLoggingDone
    \/ MwCors
    \/ MwAuth
    \/ MwReturn
    \/ MwHandler

(***************************************************************************)
(* The programs whose outcome depends on time: SelectExamples              *)
(* (src/concurrency/goroutines_channels.go:152-205), the standalone select *)
(* program (src/select/main.go:8-47) and ContextExamples (310-348).        *)
(* Time is a clock of 50 ms ticks.  time.Sleep, time.After and a context   *)
(* deadline are due at a time of the clock; what is due happens at its     *)
(* time or up to MaxLatency ticks later, and everything else takes no      *)
(* time.                                                                   *)
(***************************************************************************)
MaxLatency == 1
Ms(n) == n \div 50
\* The clock stops here, after the last thing the programs wait for.
TmMaxClock == Ms(6000)

TmProcs ==
    {"main", "sender1", "sender2", "slow", "after", "task1", "task2", "task3",
     "deadline"}

\* The sleeps of the two goroutines of the standalone select program: as in
\* the code, and as in the comments on its output.
SelectSleeps ==
    {<<Ms(2000), Ms(1000)>>, <<Ms(1000), 0>>, <<0, Ms(1000)>>, <<0, 0>>}

TimedExamples == {"selectExamples", "selectMain", "contextExamples"}

TmStart(e) ==
    /\ tmNow = 0
    /\ tmPc = [p \in TmProcs |-> IF p = "main" /\ e \in TimedExamples THEN "start" ELSE "none"]
    /\ tmDue = [p \in TmProcs |-> IF p = "main" /\ e \in TimedExamples THEN 0 ELSE -1]
    /\ tmOut = <<>>
    /\ tmCtx = [c \in {"ctx", "ctx2"} |-> ""]
    /\ IF e = "selectMain" THEN tmSleeps \in SelectSleeps ELSE tmSleeps = <<0, 0>>

\* p's sleep, timer or next statement is due.
TmDueNow(p) == tmDue[p] >= 0 /\ tmNow >= tmDue[p]


\* What the select statement main is blocked in can receive from.
TmSelecting(p) ==
    \/ tmPc["main"] = "select1" /\ p \in {"sender1", "sender2"}
    \/ tmPc["main"] = "select2" /\ p \in {"slow", "after"}
    \/ tmPc["main"] = "select" /\ p \in {"sender1", "sender2", "after"}

\* Time passes: nothing that is due is left waiting longer than
\* MaxLatency, and a send the select statement can receive is received
\* before time goes on.
\* The goroutines of ContextExamples and the context each one is given
CxTasks == {"task1", "task2", "task3"}
CxCtxOf(t) == IF t = "task3" THEN "ctx2" ELSE "ctx"

\* Time passes while nothing is overdue and no select has a case ready.
TmTick ==
    /\ example \in TimedExamples
    /\ tmNow < TmMaxClock
    /\ \A p \in TmProcs : tmDue[p] >= 0 => tmNow < tmDue[p] + MaxLatency
    /\ \A p \in TmProcs : ~(tmPc[p] = "send" /\ TmSelecting(p))
    /\ \A t \in CxTasks : ~(tmPc[t] = "select" /\ tmCtx[CxCtxOf(t)] # "")
    /\ tmNow' = tmNow + 1
    /\ UNCHANGED <<tmPc, tmDue, tmOut, tmCtx, tmSleeps, OtherThanTm>>

\* ---- SelectExamples and the standalone select program

\* The message a goroutine sends
TmMessage(p) ==
    CASE p = "slow" -> "Finally arrived"
      [] p = "sender1" /\ example = "selectExamples" -> "Message from channel 1"
      [] p = "sender2" /\ example = "selectExamples" -> "Message from channel 2"
      [] p = "sender1" /\ example = "selectMain" -> "Message for channel 1"
      [] p = "sender2" /\ example = "selectMain" -> "Message for channel 2"

\* The process ends when main returns: its goroutines end with it.
TmExit ==
    /\ tmPc' = [p \in TmProcs |->
                   IF p = "main" THEN "exit"
                   ELSE IF tmPc[p] = "none" THEN "none" ELSE "ended"]
    /\ tmDue' = [p \in TmProcs |-> -1]

\* SelectExamples: c1, c2, the two goroutines, and the basic select
SeBasic ==
    /\ example = "selectExamples"
    /\ tmPc["main"] = "start"
    /\ TmDueNow("main")
    /\ tmPc' = [tmPc EXCEPT !["sender1"] = "sleep", !["sender2"] = "sleep",
                            !["main"] = "select1"]
    /\ tmDue' = [tmDue EXCEPT !["sender1"] = tmNow + Ms(1000),
                              !["sender2"] = tmNow + Ms(800), !["main"] = -1]
    /\ UNCHANGED <<tmNow, tmOut, tmCtx, tmSleeps, OtherThanTm>>

\* The standalone program: chan1, chan2, the two goroutines, and the select
\* with its time.After(3 * time.Second)
SmStart ==
    /\ example = "selectMain"
    /\ tmPc["main"] = "start"
    /\ TmDueNow("main")
    /\ tmPc' = [tmPc EXCEPT !["sender1"] = "sleep", !["sender2"] = "sleep",
                            !["after"] = "timer", !["main"] = "select"]
    /\ tmDue' = [tmDue EXCEPT !["sender1"] = tmNow + tmSleeps[1],
                              !["sender2"] = tmNow + tmSleeps[2],
                              !["after"] = tmNow + Ms(3000), !["main"] = -1]
    /\ UNCHANGED <<tmNow, tmOut, tmCtx, tmSleeps, OtherThanTm>>

\* A goroutine's time.Sleep is over: it goes on to its send and blocks there.
TmWake(p) ==
    /\ example \in {"selectExamples", "selectMain"}
    /\ tmPc[p] = "sleep"
    /\ TmDueNow(p)
    /\ tmPc' = [tmPc EXCEPT ![p] = "send"]
    /\ tmDue' = [tmDue EXCEPT ![p] = -1]
    /\ UNCHANGED <<tmNow, tmOut, tmCtx, tmSleeps, OtherThanTm>>

\* The select statement that takes the case of channel 1 whoever sends
TmReceiveFirstCase(p) ==
    /\ example \in {"selectExamples", "selectMain"}
    /\ tmPc[p] = "send"
    /\ TmSelecting(p)
    /\ IF example = "selectMain"
         THEN /\ tmOut' = Append(tmOut, TmMessage("sender1"))
              /\ TmExit
         ELSE /\ tmOut' = Append(tmOut, "Received: " \o TmMessage("sender1"))
              /\ tmPc' = [tmPc EXCEPT ![p] = "done",
                                      !["main"] = IF @ = "select1" THEN "timeout" ELSE "select3"]
              /\ tmDue' = [tmDue EXCEPT !["main"] = tmNow]
    /\ UNCHANGED <<tmNow, tmCtx, tmSleeps, OtherThanTm>>

\* The select statement main is blocked in receives what p sends, and main
\* prints it: case msg := <-c
TmReceive(p) ==
    /\ example \in {"selectExamples", "selectMain"}
    /\ tmPc[p] = "send"
    /\ TmSelecting(p)
    /\ IF example = "selectMain"
         THEN /\ tmOut' = Append(tmOut, TmMessage(p))
              /\ TmExit
         ELSE /\ tmOut' = Append(tmOut, "Received: " \o TmMessage(p))
              /\ tmPc' = [tmPc EXCEPT ![p] = "done",
                                      !["main"] = IF @ = "select1" THEN "timeout" ELSE "select3"]
              /\ tmDue' = [tmDue EXCEPT !["main"] = tmNow]
    /\ UNCHANGED <<tmNow, tmCtx, tmSleeps, OtherThanTm>>

\* A timeout longer than the sleep of the goroutine that sends on slowChannel
SeTimeoutLong == Ms(3000)

\* SelectExamples: the timeout of its second select, time.After(1 * time.Second)
SeTimeout == Ms(1000)

\* SelectExamples: slowChannel, its goroutine, and the select with
\* time.After(1 * time.Second)
SeTimeoutBlock ==
    /\ example = "selectExamples"
    /\ tmPc["main"] = "timeout"
    /\ TmDueNow("main")
    /\ tmPc' = [tmPc EXCEPT !["slow"] = "sleep", !["after"] = "timer",
                            !["main"] = "select2"]
    /\ tmDue' = [tmDue EXCEPT !["slow"] = tmNow + Ms(2000),
                              !["after"] = tmNow + SeTimeout, !["main"] = -1]
    /\ UNCHANGED <<tmNow, tmOut, tmCtx, tmSleeps, OtherThanTm>>

\* The timer of time.After fires; the select statement that waits for it
\* takes its case: case <-time.After(...)
TmTimeout ==
    /\ example \in {"selectExamples", "selectMain"}
    /\ tmPc["after"] = "timer"
    /\ TmDueNow("after")
    /\ IF ~TmSelecting("after")
         THEN /\ tmPc' = [tmPc EXCEPT !["after"] = "fired"]
              /\ tmDue' = [tmDue EXCEPT !["after"] = -1]
              /\ UNCHANGED tmOut
         ELSE IF example = "selectMain"
                THEN /\ tmOut' = Append(tmOut, "Timeout: no message received")
                     /\ TmExit
                ELSE /\ tmOut' = Append(tmOut, "Timeout: Operation took too long")
                     /\ tmPc' = [tmPc EXCEPT !["after"] = "fired", !["main"] = "select3"]
                     /\ tmDue' = [tmDue EXCEPT !["after"] = -1, !["main"] = tmNow]
    /\ UNCHANGED <<tmNow, tmCtx, tmSleeps, OtherThanTm>>

\* SelectExamples: the select on nonBlocking, which nothing sends on, takes
\* its default case; SelectExamples returns.
SeNonBlocking ==
    /\ example = "selectExamples"
    /\ tmPc["main"] = "select3"
    /\ TmDueNow("main")
    /\ tmOut' = Append(tmOut, "No value available, continuing...")
    /\ tmPc' = [tmPc EXCEPT !["main"] = "done"]
    /\ tmDue' = [tmDue EXCEPT !["main"] = -1]
    /\ UNCHANGED <<tmNow, tmCtx, tmSleeps, OtherThanTm>>

SelectNext ==
    \/ SeBasic
    \/ SmStart
    \/ \E p \in {"sender1", "sender2", "slow"} : TmWake(p)
    \/ \E p \in {"sender1", "sender2", "slow"} : TmReceive(p)
    \/ SeTimeoutBlock
    \/ TmTimeout
    \/ SeNonBlocking
    \/ TmTick

\* ---- ContextExamples

CxName(t) == CASE t = "task1" -> "Task 1" [] t = "task2" -> "Task 2" [] t = "task3" -> "Task 3"

\* A duration of 1 second for every task
CxDurationShort(t) == Ms(1000)

\* The duration each longRunningTask is started with
CxDuration(t) == CASE t = "task1" -> Ms(1000) [] t = "task2" -> Ms(3000) [] t = "task3" -> Ms(5000)

\* ctx, cancel := context.WithTimeout(context.Background(), 2*time.Second);
\* defer cancel(); the two go statements; time.Sleep(3 * time.Second)
CxTimeout ==
    /\ example = "contextExamples"
    /\ tmPc["main"] = "start"
    /\ TmDueNow("main")
    /\ tmPc' = [tmPc EXCEPT !["deadline"] = "timer", !["task1"] = "start",
                            !["task2"] = "start", !["main"] = "sleep1"]
    /\ tmDue' = [tmDue EXCEPT !["deadline"] = tmNow + Ms(2000), !["task1"] = tmNow,
                              !["task2"] = tmNow, !["main"] = tmNow + Ms(3000)]
    /\ UNCHANGED <<tmNow, tmOut, tmCtx, tmSleeps, OtherThanTm>>

\* The deadline of ctx passes: ctx is done, its error is DeadlineExceeded.
CxDeadline ==
    /\ example = "contextExamples"
    /\ tmPc["deadline"] = "timer"
    /\ TmDueNow("deadline")
    /\ tmCtx' = [tmCtx EXCEPT !["ctx"] = IF @ = "" THEN "context deadline exceeded" ELSE @]
    /\ tmPc' = [tmPc EXCEPT !["deadline"] = "fired"]
    /\ tmDue' = [tmDue EXCEPT !["deadline"] = -1]
    /\ UNCHANGED <<tmNow, tmOut, tmSleeps, OtherThanTm>>

\* longRunningTask prints its first line and enters its select, whose
\* time.After(duration) starts now.
CxTaskStart(t) ==
    /\ example = "contextExamples"
    /\ tmPc[t] = "start"
    /\ TmDueNow(t)
    /\ tmOut' = Append(tmOut, CxName(t) \o ": Starting")
    /\ tmPc' = [tmPc EXCEPT ![t] = "select"]
    /\ tmDue' = [tmDue EXCEPT ![t] = tmNow + CxDuration(t)]
    /\ UNCHANGED <<tmNow, tmCtx, tmSleeps, OtherThanTm>>

\* case <-time.After(duration)
CxTaskCompleted(t) ==
    /\ example = "contextExamples"
    /\ tmPc[t] = "select"
    /\ TmDueNow(t)
    /\ tmOut' = Append(tmOut, CxName(t) \o ": Completed successfully")
    /\ tmPc' = [tmPc EXCEPT ![t] = "done"]
    /\ tmDue' = [tmDue EXCEPT ![t] = -1]
    /\ UNCHANGED <<tmNow, tmCtx, tmSleeps, OtherThanTm>>

\* case <-ctx.Done()
CxTaskCancelled(t) ==
    /\ example = "contextExamples"
    /\ tmPc[t] = "select"
    /\ tmCtx[CxCtxOf(t)] # ""
    /\ tmOut' = Append(tmOut, CxName(t) \o ": Cancelled (" \o tmCtx[CxCtxOf(t)] \o ")")
    /\ tmPc' = [tmPc EXCEPT ![t] = "done"]
    /\ tmDue' = [tmDue EXCEPT ![t] = -1]
    /\ UNCHANGED <<tmNow, tmCtx, tmSleeps, OtherThanTm>>

\* ctx2, cancel2 := context.WithCancel(context.Background()); the go
\* statement of Task 3; time.Sleep(1 * time.Second)
CxCancellation ==
    /\ example = "contextExamples"
    /\ tmPc["main"] = "sleep1"
    /\ TmDueNow("main")
    /\ tmPc' = [tmPc EXCEPT !["task3"] = "start", !["main"] = "sleep2"]
    /\ tmDue' = [tmDue EXCEPT !["task3"] = tmNow, !["main"] = tmNow + Ms(1000)]
    /\ UNCHANGED <<tmNow, tmOut, tmCtx, tmSleeps, OtherThanTm>>

\* fmt.Println("Cancelling context..."); cancel2(); time.Sleep(500 * time.Millisecond)
CxCancel2 ==
    /\ example = "contextExamples"
    /\ tmPc["main"] = "sleep2"
    /\ TmDueNow("main")
    /\ tmOut' = Append(tmOut, "Cancelling context...")
    /\ tmCtx' = [tmCtx EXCEPT !["ctx2"] = IF @ = "" THEN "context canceled" ELSE @]
    /\ tmPc' = [tmPc EXCEPT !["main"] = "sleep3"]
    /\ tmDue' = [tmDue EXCEPT !["main"] = tmNow + Ms(500)]
    /\ UNCHANGED <<tmNow, tmSleeps, OtherThanTm>>

\* ContextExamples returns: the deferred cancel() runs.
CxReturn ==
    /\ example = "contextExamples"
    /\ tmPc["main"] = "sleep3"
    /\ TmDueNow("main")
    /\ tmCtx' = [tmCtx EXCEPT !["ctx"] = IF @ = "" THEN "context canceled" ELSE @]
    /\ tmPc' = [tmPc EXCEPT !["main"] = "done",
                            !["deadline"] = IF @ = "timer" THEN "stopped" ELSE @]
    /\ tmDue' = [tmDue EXCEPT !["main"] = -1, !["deadline"] = -1]
    /\ UNCHANGED <<tmNow, tmOut, tmSleeps, OtherThanTm>>

ContextNext ==
    \/ CxTimeout
    \/ CxDeadline
    \/ \E t \in CxTasks : CxTaskStart(t)
    \/ \E t \in CxTasks : CxTaskCompleted(t)
    \/ \E t \in CxTasks : CxTaskCancelled(t)
    \/ CxCancellation
    \/ CxCancel2
    \/ CxReturn
    \/ TmTick

\* ---------------------------------------------------------------------------
\* The defer program (main with three defer statements, one of them in a loop)
\* ---------------------------------------------------------------------------

\* for i := 0; i < 5; i++
dfLoopN == 5

\* fmt.Println(s) writes s and a newline
Println(s) == s \o "\n"

\* fmt.Printf("%d ", i)
PrintfD(i) == ToString(i) \o " "

DfStart(e) ==
    /\ dfPc = IF e = "deferMain" THEN "deferEnding" ELSE "none"
    /\ dfI = 0
    /\ dfStack = <<>>
    /\ dfOut = <<>>

\* A defer statement: the call is registered with its arguments as they are now.
DfDefer(pc, text, next) ==
    /\ example = "deferMain"
    /\ dfPc = pc
    /\ dfStack' = Append(dfStack, text)
    /\ dfPc' = next
    /\ UNCHANGED <<dfI, dfOut, OtherThanDf>>

\* A call of fmt.Println in the body of main
DfPrintln(pc, s, next) ==
    /\ example = "deferMain"
    /\ dfPc = pc
    /\ dfOut' = Append(dfOut, Println(s))
    /\ dfPc' = next
    /\ UNCHANGED <<dfI, dfStack, OtherThanDf>>

\* defer fmt.Println("Ending main function")
DfDeferEnding == DfDefer("deferEnding", Println("Ending main function"), "printStarting")

\* fmt.Println("Starting main function")
DfPrintStarting == DfPrintln("printStarting", "Starting main function", "deferStarting")

\* defer fmt.Println("Starting main function with defer")
DfDeferStarting ==
    DfDefer("deferStarting", Println("Starting main function with defer"), "loop")

\* One round of the loop, defer fmt.Printf("%d ", i), or its end
DfLoop ==
    /\ example = "deferMain"
    /\ dfPc = "loop"
    /\ IF dfI < dfLoopN
         THEN /\ dfStack' = Append(dfStack, PrintfD(dfI))
              /\ dfI' = dfI + 1
              /\ UNCHANGED dfPc
         ELSE /\ dfPc' = "printLoopEnded"
              /\ UNCHANGED <<dfI, dfStack>>
    /\ UNCHANGED <<dfOut, OtherThanDf>>

\* fmt.Println("Loop ended"); the body of main is over
DfPrintLoopEnded == DfPrintln("printLoopEnded", "Loop ended", "return")

\* Deferred calls run first-registered first
DfOldest(stack) == 1

\* The deferred call that runs next: the one registered last
DfLatest(stack) == Len(stack)

\* main returns: its deferred calls run, one at a time
DfReturn ==
    /\ example = "deferMain"
    /\ dfPc = "return"
    /\ IF dfStack = <<>>
         THEN /\ dfPc' = "done"
              /\ UNCHANGED <<dfStack, dfOut>>
         ELSE LET k == DfLatest(dfStack) IN
              /\ dfOut' = Append(dfOut, dfStack[k])
              /\ dfStack' = SubSeq(dfStack, 1, k - 1) \o SubSeq(dfStack, k + 1, Len(dfStack))
              /\ UNCHANGED dfPc
    /\ UNCHANGED <<dfI, OtherThanDf>>

DeferNext ==
    \/ DfDeferEnding
    \/ DfPrintStarting
    \/ DfDeferStarting
    \/ DfLoop
    \/ DfPrintLoopEnded
    \/ DfReturn

\* ---------------------------------------------------------------------------
\* functions.Server and its methods
\* ---------------------------------------------------------------------------

\* How many method calls a run makes at most
MaxServerCalls == 3

\* The ports SetPort is called with
ServerPorts == {8080, 9090, 0}

\* The requests HandleRequest is called with
ServerRequests == {"GET /api/users", ""}

\* server := &Server{Name: "WebServer-1", Port: 8080}
ServerStart ==
    /\ srvName = "WebServer-1"
    /\ srvPort = 8080
    /\ srvRunning = FALSE
    /\ srvLog = <<>>

\* A call is made on the server: its record goes to the log
ServerCall(call, arg, result) ==
    /\ example = "methodExamples"
    /\ Len(srvLog) < MaxServerCalls
    /\ srvLog' = Append(srvLog, [call |-> call, arg |-> arg, result |-> result])

\* func (s *Server) Start()
Start ==
    /\ ServerCall("Start", "", "Server " \o srvName \o " started on port " \o ToString(srvPort))
    /\ srvRunning' = TRUE
    /\ UNCHANGED <<srvName, srvPort, OtherThanSrv>>

\* A Stop that leaves the server running
StopPrintsOnly ==
    /\ ServerCall("Stop", "", "Server " \o srvName \o " stopped")
    /\ UNCHANGED <<srvName, srvPort, srvRunning, OtherThanSrv>>

\* func (s *Server) Stop()
Stop ==
    /\ ServerCall("Stop", "", "Server " \o srvName \o " stopped")
    /\ srvRunning' = FALSE
    /\ UNCHANGED <<srvName, srvPort, OtherThanSrv>>

\* func (s *Server) HandleRequest(request string)
HandleRequest(request) ==
    /\ IF ~srvRunning
         THEN ServerCall("HandleRequest", request,
                         "Cannot handle request: server is not running")
         ELSE ServerCall("HandleRequest", request, srvName \o " handling: " \o request)
    /\ UNCHANGED <<srvName, srvPort, srvRunning, OtherThanSrv>>

\* func (s *Server) SetPort(port int)
SetPort(port) ==
    /\ ServerCall("SetPort", ToString(port),
                  srvName \o " port updated to " \o ToString(port))
    /\ srvPort' = port
    /\ UNCHANGED <<srvName, srvRunning, OtherThanSrv>>

\* func (s Server) GetStatus() string: works on a copy of the server
GetStatus ==
    /\ LET s == [Name |-> srvName, Port |-> srvPort, Running |-> srvRunning] IN
          ServerCall("GetStatus", "",
                     IF s.Running THEN "Running on port " \o ToString(s.Port)
                     ELSE "Stopped")
    /\ UNCHANGED <<srvName, srvPort, srvRunning, OtherThanSrv>>

ServerNext ==
    \/ Start
    \/ Stop
    \/ \E request \in ServerRequests : HandleRequest(request)
    \/ \E port \in ServerPorts : SetPort(port)
    \/ GetStatus

\* ---------------------------------------------------------------------------
\* The users API of the HTTP server: usersHandler, userByIDHandler
\* ---------------------------------------------------------------------------

\* ---- http.ResponseWriter

\* The response before the handler has written anything
NewResponse == [code |-> 0, headerWrites |-> 0, contentType |-> "", body |-> <<>>]

NoValue == [none |-> TRUE]

\* w.Header().Set("Content-Type", ...): of no effect once the header is written
SetContentType(w, contentType) ==
    IF w.code = 0 THEN [w EXCEPT !.contentType = contentType] ELSE w

\* w.WriteHeader(code): the first call decides the status
WriteHeader(w, code) ==
    IF w.code = 0 THEN [w EXCEPT !.code = code, !.headerWrites = @ + 1]
    ELSE [w EXCEPT !.headerWrites = @ + 1]

\* w.Write(data): writes the header with 200 first, if it is not written yet
Write(w, data) ==
    LET written == IF w.code = 0 THEN WriteHeader(w, 200) ELSE w
    IN  [written EXCEPT !.body = Append(@, data)]

\* http.Error(w, error, code)
Error(w, error, code) ==
    Write(WriteHeader(SetContentType(w, "text/plain; charset=utf-8"), code),
          [kind |-> "text", text |-> error \o "\n", value |-> NoValue])

\* json.NewEncoder(w).Encode(v)
Encode(w, v) == Write(w, [kind |-> "json", text |-> "", value |-> v])

\* ---- userByIDHandler

\* How long the part of the path after /api/users/ is at most
MaxIdLen == 3

IdChars == {"0", "1", "3", "4", "9", "-", "+", "a", "/"}
IdTexts == StringsUpTo(IdChars, MaxIdLen)
HttpMethods == {"GET", "POST", "DELETE"}

\* The users of the simulated database
Alice == [ID |-> 1, Name |-> "Alice Johnson", Email |-> "alice@example.com", Role |-> "admin"]
Bob == [ID |-> 2, Name |-> "Bob Smith", Email |-> "bob@example.com", Role |-> "user"]
Charlie == [ID |-> 3, Name |-> "Charlie Brown", Email |-> "charlie@example.com", Role |-> "user"]
KnownUsers == {Alice, Bob, Charlie}

DecimalDigits == <<"0", "1", "2", "3", "4", "5", "6", "7", "8", "9">>
IsDigit(c) == \E d \in 1..10 : DecimalDigits[d] = c
DigitOf(c) == (CHOOSE d \in 1..10 : DecimalDigits[d] = c) - 1

RECURSIVE DecimalValue(_)
DecimalValue(s) ==
    IF s = <<>> THEN 0
    ELSE 10 * DecimalValue(SubSeq(s, 1, Len(s) - 1)) + DigitOf(s[Len(s)])

\* strconv.Atoi(s): an optional sign, then decimal digits, at least one; the
\* value has to be in the range of int
strconvAtoi(s) ==
    LET signed == s # <<>> /\ Head(s) \in {"+", "-"}
        digits == IF signed THEN Tail(s) ELSE s
    IN  IF digits = <<>> \/ \E i \in 1..Len(digits) : ~IsDigit(digits[i])
          THEN [n |-> 0, err |-> "invalid syntax"]
        ELSE LET n == IF signed /\ Head(s) = "-" THEN 0 - DecimalValue(digits)
                      ELSE DecimalValue(digits)
             IN  IF n < MinInt \/ n > MaxInt
                   THEN [n |-> (IF n < 0 THEN MinInt ELSE MaxInt), err |-> "value out of range"]
                 ELSE [n |-> n, err |-> "nil"]

\* handleGetUserByID
handleGetUserByID(w, userID) ==
    IF ~\E user \in KnownUsers : user.ID = userID
      THEN Error(w, "User not found", 404)
    ELSE Encode(WriteHeader(w, 200), CHOOSE user \in KnownUsers : user.ID = userID)

\* userByIDHandler that looks at the method first
userByIDHandlerMethodFirst(w, r) ==
    LET path == TrimPrefix(r.path, <<"/api/users/">>)
        parsed == strconvAtoi(path)
    IN  IF r.method # "GET" THEN Error(w, "Method not allowed", 405)
        ELSE IF path = <<>> THEN Error(w, "User ID is required", 400)
        ELSE IF parsed.err # "nil" THEN Error(w, "Invalid user ID", 400)
        ELSE handleGetUserByID(SetContentType(w, "application/json"), parsed.n)

\* userByIDHandler
userByIDHandler(w, r) ==
    LET path == TrimPrefix(r.path, <<"/api/users/">>)
        parsed == strconvAtoi(path)
    IN  IF path = <<>> THEN Error(w, "User ID is required", 400)
        ELSE IF parsed.err # "nil" THEN Error(w, "Invalid user ID", 400)
        ELSE IF r.method = "GET"
               THEN handleGetUserByID(SetContentType(w, "application/json"), parsed.n)
        ELSE Error(SetContentType(w, "application/json"), "Method not allowed", 405)

\* ---- The body of a request, as the JSON tokens it is made of

\* How many members the objects tried have at most
MaxMembers == 2

\* String tokens and the strings they denote
JsonStrings ==
    [t \in {"\"name\"", "\"email\"", "\"Name\"", "\"role\"", "\"a\"", "\"\""} |->
        CASE t = "\"name\"" -> "name" [] t = "\"email\"" -> "email"
          [] t = "\"Name\"" -> "Name" [] t = "\"role\"" -> "role"
          [] t = "\"a\"" -> "a" [] t = "\"\"" -> ""]
IsJsonString(t) == t \in DOMAIN JsonStrings

JsonKeys == {"\"name\"", "\"email\"", "\"Name\"", "\"role\""}
JsonScalars == {"\"a\"", "\"\"", "null", "5"}
JsonMembers == {<<k, ":", v>> : k \in JsonKeys, v \in JsonScalars}

RECURSIVE JsonMemberLists(_)
\* The member lists of up to n members, with the commas between them
JsonMemberLists(n) ==
    IF n = 0 THEN {<<>>}
    ELSE LET shorter == JsonMemberLists(n - 1)
         IN  shorter \cup {IF l = <<>> THEN m ELSE l \o <<",">> \o m :
                              l \in shorter, m \in JsonMembers}

\* Complete JSON values: objects, and values that are no objects
JsonValues ==
    {<<"{">> \o l \o <<"}">> : l \in JsonMemberLists(MaxMembers)}
        \cup {<<"null">>, <<"5">>, <<"\"a\"">>, <<"[", "]">>}

\* What may follow the first value in the body
JsonTrailers == {<<>>, <<"junk">>, <<"}">>, <<"null">>}

\* The bodies tried: a value and what follows it, and everything such a body
\* is cut short to
Bodies ==
    UNION {{SubSeq(v \o t, 1, n) : n \in 0..Len(v \o t)} : v \in JsonValues, t \in JsonTrailers}

\* strings.EqualFold, for the keys above
EqualFold(a, b) ==
    LET lower(s) == IF s = "Name" THEN "name" ELSE s IN lower(a) = lower(b)

\* A value other than an object or array starts at b[i]: it is one token
IsJsonScalar(b, i) == i <= Len(b) /\ (IsJsonString(b[i]) \/ b[i] \in {"null", "5"})

\* The tokens of the value that starts at b[i]; 0 when none does (values
\* nested in an object are scalars or the empty array here)
JsonValueLen(b, i) ==
    IF IsJsonScalar(b, i) THEN 1
    ELSE IF i + 1 <= Len(b) /\ b[i] = "[" /\ b[i + 1] = "]" THEN 2
    ELSE 0

\* A member value v decoded into the string field that has the value old
DecodeString(old, v) ==
    IF v = "null" THEN [value |-> old, err |-> FALSE]
    ELSE IF IsJsonString(v) THEN [value |-> JsonStrings[v], err |-> FALSE]
    ELSE [value |-> old, err |-> TRUE]

RECURSIVE DecodeMembers(_, _, _, _, _)
\* The members of an object from b[i] on, decoded into req: a syntax error
\* anywhere is the result; a value of the wrong type is reported at the end.
DecodeMembers(b, i, first, req, typeErr) ==
    IF i > Len(b) THEN [err |-> "unexpected EOF", req |-> req]
    ELSE IF first /\ b[i] = "}"
           THEN [err |-> IF typeErr THEN "cannot unmarshal" ELSE "nil", req |-> req]
    ELSE IF ~IsJsonString(b[i]) THEN [err |-> "invalid character", req |-> req]
    ELSE IF i + 1 > Len(b) THEN [err |-> "unexpected EOF", req |-> req]
    ELSE IF b[i + 1] # ":" THEN [err |-> "invalid character", req |-> req]
    ELSE IF i + 2 > Len(b) THEN [err |-> "unexpected EOF", req |-> req]
    ELSE IF JsonValueLen(b, i + 2) = 0 THEN [err |-> "invalid character", req |-> req]
    ELSE LET key == JsonStrings[b[i]]
             n == JsonValueLen(b, i + 2)
             v == IF n = 1 THEN b[i + 2] ELSE "[]"
             name == IF EqualFold(key, "name") THEN DecodeString(req.Name, v)
                     ELSE [value |-> req.Name, err |-> FALSE]
             email == IF EqualFold(key, "email") THEN DecodeString(req.Email, v)
                      ELSE [value |-> req.Email, err |-> FALSE]
             decoded == [Name |-> name.value, Email |-> email.value]
             wrong == typeErr \/ name.err \/ email.err
             next == i + 2 + n
         IN  IF next > Len(b) THEN [err |-> "unexpected EOF", req |-> decoded]
             ELSE IF b[next] = "}"
                    THEN [err |-> IF wrong THEN "cannot unmarshal" ELSE "nil", req |-> decoded]
             ELSE IF b[next] = ","
                    THEN DecodeMembers(b, next + 1, FALSE, decoded, wrong)
             ELSE [err |-> "invalid character", req |-> decoded]

\* json.NewDecoder(r.Body).Decode(&createReq): the first JSON value of the
\* body is read and stored in the request; what follows it is not looked at.
Decode(b) ==
    LET zero == [Name |-> "", Email |-> ""] IN
    IF b = <<>> THEN [err |-> "EOF", req |-> zero]
    ELSE IF b[1] = "{" THEN DecodeMembers(b, 2, TRUE, zero, FALSE)
    ELSE IF b[1] = "null" THEN [err |-> "nil", req |-> zero]
    ELSE IF JsonValueLen(b, 1) > 0 THEN [err |-> "cannot unmarshal", req |-> zero]
    ELSE IF b[1] = "[" /\ Len(b) = 1 THEN [err |-> "unexpected EOF", req |-> zero]
    ELSE [err |-> "invalid character", req |-> zero]

\* ---- usersHandler

\* generateUserID, in both packages: int(time.Now().Unix() % 10000)
generateUserID(now) == now % 10000

\* handleGetUsers
handleGetUsers(w) ==
    Encode(WriteHeader(w, 200),
           [Users |-> <<Alice, Bob, Charlie>>, Total |-> 3, Page |-> 1, Limit |-> 10])

\* handleCreateUser with the two validations in the other order
handleCreateUserEmailFirst(w, body, now) ==
    LET decoded == Decode(body)
        createReq == decoded.req
    IN  IF decoded.err # "nil" THEN Error(w, "Invalid JSON", 400)
        ELSE IF createReq.Email = "" THEN Error(w, "Email is required", 400)
        ELSE IF createReq.Name = "" THEN Error(w, "Name is required", 400)
        ELSE Encode(WriteHeader(w, 201),
                    [ID |-> generateUserID(now), Name |-> createReq.Name,
                     Email |-> createReq.Email, Role |-> "user"])

\* handleCreateUser
handleCreateUser(w, body, now) ==
    LET decoded == Decode(body)
        createReq == decoded.req
    IN  IF decoded.err # "nil" THEN Error(w, "Invalid JSON", 400)
        ELSE IF createReq.Name = "" THEN Error(w, "Name is required", 400)
        ELSE IF createReq.Email = "" THEN Error(w, "Email is required", 400)
        ELSE Encode(WriteHeader(w, 201),
                    [ID |-> generateUserID(now), Name |-> createReq.Name,
                     Email |-> createReq.Email, Role |-> "user"])

\* usersHandler
usersHandler(w, r, now) ==
    LET json == SetContentType(w, "application/json") IN
    CASE r.method = "GET" -> handleGetUsers(json)
      [] r.method = "POST" -> handleCreateUser(json, r.body, now)
      [] OTHER -> Error(json, "Method not allowed", 405)

\* ---- The requests served and the user IDs given

\* How many users are created at most
MaxIssued == 3

\* time.Now().Unix() at the start, and the seconds that have passed at the
\* calls of generateUserID: none, one, and as many as there are IDs, and one more
UnixBase == 176212 * 10000
UnixTimes == {UnixBase, UnixBase + 1, UnixBase + 10000, UnixBase + 10001}

NoHttpRequest == [method |-> "", path |-> <<>>, body |-> <<>>]

\* The requests for /api/users and for /api/users/...
UsersRequests ==
    {[method |-> method, path |-> <<"/api/users">>,
      body |-> IF method = "POST" THEN body ELSE <<>>] :
         method \in HttpMethods, body \in Bodies}
UserByIDRequests ==
    {[method |-> method, path |-> <<"/api/users/">> \o id, body |-> <<>>] :
         method \in HttpMethods, id \in IdTexts}

\* In the run of the users API one request has arrived and waits for its
\* handler; in the run of the callers of generateUserID none has so far.
UsersStart(e) ==
    /\ IF e = "usersAPI" THEN hsReq \in UsersRequests \cup UserByIDRequests
       ELSE hsReq = NoHttpRequest
    /\ hsResp = NewResponse
    /\ IF e = "usersAPI" THEN hsNow \in UnixTimes ELSE hsNow = UnixBase
    /\ hsIssued = <<>>

\* The IDs of the users created so far, with the ID of the user the response
\* carries, if it carries one
Issued(w) ==
    IF w.code = 201 THEN Append(hsIssued, w.body[1].value.ID) ELSE hsIssued

\* The request has not been served yet
HsPending == hsResp = NewResponse

\* The request for /api/users is served by usersHandler
ServeUsers ==
    /\ example = "usersAPI"
    /\ HsPending
    /\ hsReq.path = <<"/api/users">>
    /\ hsResp' = usersHandler(NewResponse, hsReq, hsNow)
    /\ hsIssued' = Issued(hsResp')
    /\ UNCHANGED <<hsReq, hsNow, OtherThanHs>>

\* The request for /api/users/... is served by userByIDHandler
ServeUserByID ==
    /\ example = "usersAPI"
    /\ HsPending
    /\ HasPrefix(hsReq.path, <<"/api/users/">>)
    /\ hsResp' = userByIDHandler(NewResponse, hsReq)
    /\ UNCHANGED <<hsReq, hsNow, hsIssued, OtherThanHs>>

UsersAPINext ==
    \/ ServeUsers
    \/ ServeUserByID

\* ---- The callers of generateUserID, as time passes

\* functions.createUser(username, email): the ID of the user, or the error
createUser(username, email, now) ==
    IF username = "" THEN [err |-> "username cannot be empty", ID |-> 0]
    ELSE IF validateEmail(email) # "nil"
           THEN [err |-> "invalid email: " \o validateEmail(email), ID |-> 0]
    ELSE [err |-> "nil", ID |-> generateUserID(now)]

\* Time passes
UidTick ==
    /\ example = "userIDs"
    /\ \E t \in UnixTimes : t > hsNow /\ hsNow' = t
    /\ UNCHANGED <<hsReq, hsResp, hsIssued, OtherThanHs>>

\* createUser is called, as ErrorHandlingPatterns calls it
UidCreateUser ==
    /\ example = "userIDs"
    /\ Len(hsIssued) < MaxIssued
    /\ \E username \in {"john_doe", ""}, email \in {UserAtExampleCom, InvalidEmail} :
          LET created == createUser(username, email, hsNow) IN
          hsIssued' = IF created.err = "nil" THEN Append(hsIssued, created.ID) ELSE hsIssued
    /\ UNCHANGED <<hsReq, hsResp, hsNow, OtherThanHs>>

\* POST /api/users with a name and an e-mail address, or without the address
UidPostUser ==
    /\ example = "userIDs"
    /\ Len(hsIssued) < MaxIssued
    /\ \E body \in {<<"{", "\"name\"", ":", "\"a\"", ",", "\"email\"", ":", "\"a\"", "}">>,
                    <<"{", "\"name\"", ":", "\"a\"", "}">>} :
          LET r == [method |-> "POST", path |-> <<"/api/users">>, body |-> body]
              w == usersHandler(NewResponse, r, hsNow)
          IN  /\ hsReq' = r
              /\ hsResp' = w
              /\ hsIssued' = Issued(w)
    /\ UNCHANGED <<hsNow, OtherThanHs>>

UserIDsNext ==
    \/ UidTick
    \/ UidCreateUser
    \/ UidPostUser

(***************************************************************************)
(* Specifications: one example runs, the others stay as constructed.       *)
(***************************************************************************)
InitOf(e) ==
    /\ example = e
    /\ ChanStart
    /\ MutexStart
    /\ PoolStart
    /\ IF e = "fibonacci" THEN FibStart ELSE FibIdle
    /\ IF e = "functions" THEN FnStart ELSE FnIdle
    /\ MenuStart
    /\ PcStart
    /\ PipeInit
    /\ WgStart(e)
    /\ RateLimitStart
    /\ RcStart
    /\ IF e = "middleware" THEN MwStart ELSE MwIdle
    /\ TmStart(e)
    /\ DfStart(e)
    /\ ServerStart
    /\ UsersStart(e)

InitMutex == InitOf("mutex")
SpecMutex == InitMutex /\ [][MutexNext]_vars

InitPool == InitOf("pool")
SpecPool == InitPool /\ [][PoolNext]_vars
\* The scheduler runs every goroutine that can take a step.
FairPool == SpecPool /\ WF_vars(PoolNext)

InitFib == InitOf("fibonacci")
SpecFib == InitFib /\ [][FibNext]_vars
\* A call that can take its next step takes it.
FairFib == SpecFib /\ WF_vars(FibNext)

InitFn == InitOf("functions")
SpecFn == InitFn /\ [][FnNext]_vars

InitMenu == InitOf("menu")
SpecMenu == InitMenu /\ [][MenuNext]_vars

InitPc == InitOf("producerConsumer")
SpecPc == InitPc /\ [][PcNext]_vars

InitPipe == InitOf("pipeline")
SpecPipe == InitPipe /\ [][PipeNext]_vars

\* The three patterns of the concurrency package that close channels.
InitPatterns == \E e \in {"pool", "producerConsumer", "pipeline"} : InitOf(e)
PatternsNext == PoolNext \/ PcNext \/ PipeNext
SpecPatterns == InitPatterns /\ [][PatternsNext]_vars


\* The two WaitGroup programs.
InitWg == \E e \in WgExamples : InitOf(e)
SpecWg == InitWg /\ [][WgNext]_vars
\* The scheduler runs every goroutine that can take a step.
FairWg == SpecWg /\ WF_vars(WgNext)

InitRateLimit == InitOf("rateLimit")
SpecRateLimit == InitRateLimit /\ [][RateLimitNext]_vars

InitRc == InitOf("rateLimitConcurrent")
SpecRc == InitRc /\ [][RcNext]_vars

InitMw == InitOf("middleware")
SpecMw == InitMw /\ [][MwNext]_vars
\* A handler that can take its next step takes it.
FairMw == SpecMw /\ WF_vars(MwNext)

\* The scheduler runs every goroutine that can take a step.
FairPipe == SpecPipe /\ WF_vars(PipeNext)

\* The scheduler runs every goroutine that can take a step.
FairPc == SpecPc /\ WF_vars(PcNext)

\* The two select programs.
InitSelect == \E e \in {"selectExamples", "selectMain"} : InitOf(e)
SpecSelect == InitSelect /\ [][SelectNext]_vars
\* What is due happens, and time goes on.
FairSelect == SpecSelect /\ WF_vars(SelectNext)

InitContext == InitOf("contextExamples")
SpecContext == InitContext /\ [][ContextNext]_vars
FairContext == SpecContext /\ WF_vars(ContextNext)

\* The defer program and the select programs
InitDeferSelect == \E e \in {"deferMain", "selectMain", "selectExamples"} : InitOf(e)
SpecDeferSelect == InitDeferSelect /\ [][DeferNext \/ SelectNext]_vars
FairDeferSelect == SpecDeferSelect /\ WF_vars(DeferNext) /\ WF_vars(SelectNext)

InitServer == InitOf("methodExamples")
SpecServer == InitServer /\ [][ServerNext]_vars

InitUsersAPI == InitOf("usersAPI")
SpecUsersAPI == InitUsersAPI /\ [][UsersAPINext]_vars

InitUserIDs == InitOf("userIDs")
SpecUserIDs == InitUserIDs /\ [][UserIDsNext]_vars

(***************************************************************************)
(* Properties                                                              *)
(***************************************************************************)
\* All increment() goroutines have finished their loops.
MutexAllDone == \A g \in Goroutines : incPc[g] = "done"

\* C1: the value main prints as "Final Counter" is NumGoroutines *
\* NumIncrements (5000 in the program) on every execution.
C1_FinalCounterExact ==
    (example = "mutex" /\ mxMainPc = "exit")
        => mxPrinted = NumGoroutines * NumIncrements

\* The n-th Fibonacci number, F(0) = 0, F(1) = 1, F(n) = F(n-1) + F(n-2),
\* computed by running the recurrence forward from (F(0), F(1)).
RECURSIVE FibFrom(_, _, _)
FibFrom(k, a, b) == IF k = 0 THEN a ELSE FibFrom(k - 1, b, a + b)

FibNumber(n) == FibFrom(n, 0, 1)

\* The bag {FibNumber(j) : j in 1..n}, with multiplicities.
RECURSIVE FibBag(_)
FibBag(n) == IF n = 0 THEN EmptyBag ELSE FibBag(n - 1) (+) SetToBag({FibNumber(n)})

PoolFinished ==
    /\ example = "pool"
    /\ wpMainPc = "done"
    /\ \A w \in PoolWorkers : wpPc[w] = "done"

PoolOutcome ==
    /\ \A j \in PoolJobs : wpRecv[j] <= 1
    /\ wpMainPc = "done" =>
          /\ \A j \in PoolJobs : wpRecv[j] = 1
          /\ wpR = numJobs
          /\ wpGot = FibBag(numJobs)

\* C2: WorkerPoolPattern runs to completion on every interleaving (main
\* returns and every worker leaves its loop), each job 1..8 is received by
\* exactly one worker, main receives exactly 8 results, and the multiset of
\* the received results is that of the Fibonacci numbers of 1..8.
C2_PoolCompletes == []PoolOutcome /\ <>[]PoolFinished

C2_Witness ==
    /\ PoolFinished
    /\ wpR = numJobs
    /\ wpGot = FibBag(numJobs)
    /\ \A j \in PoolJobs : wpRecv[j] = 1

FibResult ==
    FibReturned =>
        /\ fbRet = FibNumber(fbN)
        /\ fbRet = fibonacci(fbN)
        /\ fbN = 6 => fbRet = 8

\* C3: for every n in 0..MaxFibArg the call fibonacci(n) returns, and what
\* it returns is the n-th Fibonacci number; fibonacci(6) returns 8.
C3_FibonacciCorrect == []FibResult /\ <>FibReturned

C3_Witness == FibReturned /\ fbN = 6 /\ fbRet = 8

DivideReturned == example = "functions" /\ fnName = "divide" /\ fnPc = "returned"

\* (q, r) is the truncated quotient and remainder of dividend by divisor.
IsTruncatedDivision(dividend, divisor, q, r) ==
    /\ dividend = q * divisor + r
    /\ Abs(r) < Abs(divisor)
    /\ r = 0 \/ (r < 0) = (dividend < 0)

\* C4 as stated: for every dividend and every non-zero divisor divide
\* returns the truncated quotient and remainder.
C4_DivideTruncatedAlways ==
    DivideReturned =>
        IsTruncatedDivision(dvDividend, dvDivisor, dvResult[1], dvResult[2])

\* C4, amended: divide returns the truncated quotient and remainder for
\* every dividend and every non-zero divisor except the most negative
\* dividend divided by -1, where the quotient overflows and divide returns
\* (dividend, 0); divide(17, 5) returns (3, 2).
C4_DivideTruncated ==
    DivideReturned =>
        /\ IF dvDividend = MinInt /\ dvDivisor = -1
             THEN dvResult = <<dvDividend, 0>>
             ELSE IsTruncatedDivision(dvDividend, dvDivisor, dvResult[1], dvResult[2])
        /\ (dvDividend = 17 /\ dvDivisor = 5) => dvResult = <<3, 2>>

C4_Witness ==
    DivideReturned /\ dvDividend = 17 /\ dvDivisor = 5 /\ dvResult = <<3, 2>>

EmailReturned ==
    example = "functions" /\ fnName = "validateEmail" /\ fnPc = "returned"

\* Character c occurs in string s.
HasChar(s, c) == \E i \in 1..Len(s) : s[i] = c

\* C5: validateEmail returns nil exactly for the strings with an '@' and a
\* '.'; without '@' it returns the missing-'@' error, with '@' but without
\* '.' the missing-domain-extension error; "invalid-email" gets an error
\* and "user@example.com" gets nil.
C5_ValidateEmail ==
    EmailReturned =>
        /\ emErr = "nil" <=> (HasChar(emEmail, "@") /\ HasChar(emEmail, "."))
        /\ ~HasChar(emEmail, "@") => emErr = ErrNoAt
        /\ (HasChar(emEmail, "@") /\ ~HasChar(emEmail, ".")) => emErr = ErrNoDomain
        /\ emEmail = InvalidEmail => emErr # "nil"
        /\ emEmail = UserAtExampleCom => emErr = "nil"

C5_Witness ==
    /\ EmailReturned
    /\ emEmail = <<"a", "@", "a">>
    /\ emErr = ErrNoDomain

\* The line without its leading and trailing white space, by position: what
\* lies between its first and its last character that is not white space.
Stripped(s) ==
    LET solid == {i \in 1..Len(s) : s[i] \notin {" ", "\t", "\n", "\r"}}
    IN  IF solid = {} THEN <<>>
        ELSE SubSeq(s, CHOOSE i \in solid : \A j \in solid : i <= j,
                       CHOOSE i \in solid : \A j \in solid : j <= i)

MenuDigits == <<"1", "2", "3", "4", "5", "6", "7">>

\* After executeChoice: exactly the module of the number typed has run, or
\* none has and the invalid-choice error was printed.
MenuDispatch ==
    mnPc = "pressEnter" =>
        IF \E k \in 1..7 : Stripped(mnInput) = <<MenuDigits[k]>>
          THEN /\ \A k \in 1..7 :
                     Stripped(mnInput) = <<MenuDigits[k]>> => mnRan = ModuleNames[k]
               /\ ~mnInvalid
          ELSE /\ mnRan = "none"
               /\ mnInvalid

\* After the choice was handled the loop goes back to displayMenu, and
\* displayMenu to the prompt.
MenuRedisplayed ==
    /\ mnPc = "pressEnter" => mnPc' = "menu"
    /\ mnPc = "menu" => mnPc' = "read"

\* C6: in every iteration of the menu loop, whatever the earlier iterations
\* did, a trimmed input of "1".."7" runs exactly the module with that
\* number, and every other input except "0" (empty, non-numeric, out of
\* range, "07", "+3") runs no module, prints the invalid-choice error and
\* leads to the menu being displayed again.
C6_MenuDispatch == []MenuDispatch /\ [][MenuRedisplayed]_vars

C6_Witness ==
    /\ mnPc = "pressEnter"
    /\ mnPrev = "runAllExamples"
    /\ mnInput = <<"0", "7", "\n">>
    /\ mnRan = "none"
    /\ mnInvalid

\* The loop has been left only on a line that is "0" once trimmed, with no
\* module run; a line handled by executeChoice is not "0".
MenuExit ==
    /\ mnPc = "exit" =>
          /\ Stripped(mnInput) = <<"0">>
          /\ mnRan = "none"
          /\ ~mnInvalid
    /\ mnPc \in {"execute", "pressEnter"} => Stripped(mnInput) # <<"0">>

\* The line read decides: "0" leaves the loop for good, anything else goes
\* through executeChoice and the pause back to the menu.
MenuContinues ==
    /\ mnPc = "check" =>
          mnPc' = IF Stripped(mnInput) = <<"0">> THEN "exit" ELSE "execute"
    /\ mnPc = "execute" => mnPc' = "pressEnter"
    /\ mnPc = "pressEnter" => mnPc' = "menu" /\ Stripped(mnInput) # <<"0">>
    /\ mnPc = "exit" => mnPc' = "exit"

\* C7: the menu loop terminates if and only if the trimmed line read at
\* the menu prompt equals "0"; in that iteration no module is run, and for
\* any other input, an empty read at end of input included, the loop
\* continues with another menu display.
C7_MenuExit == []MenuExit /\ [][MenuContinues]_vars

C7_Witness ==
    /\ mnPc = "exit"
    /\ mnPrev = "invalid"
    /\ mnInput = <<" ", "0", "\n">>
    /\ mnRan = "none"

\* No channel operation has panicked and no channel was closed twice.
NoChannelPanic ==
    /\ panicked = ""
    /\ \A c \in ChanNames : Len(chClosers[c]) <= 1

NoSendAfterClose ==
    \A c \in ChanNames : IsClosed(c) => chSenders'[c] = chSenders[c]

ClosedOnceBySenderOrAfterWait ==
    /\ NoChannelPanic
    /\ \A c \in ChanNames \ {"pc.results"} :
          IsClosed(c) => chSenders[c] = {chClosers[c][1]}
    /\ IsClosed("pc.results") =>
          /\ chClosers["pc.results"] = <<PcMain>>
          /\ chSenders["pc.results"] \subseteq {Consumer(w) : w \in Consumers}
          /\ chSenders["pc.results"] # {}
          /\ \A w \in Consumers : consPc[w] = "done"
          /\ pcWg = 0
    /\ ~IsClosed("wp.results")

WgWaitReturned == wgMainPc \in {"print", "done"}

\* Where the line printed after wg.Wait() stands in the output, every
\* worker's completion message stands before it.
WgFinalLineLast ==
    \A i \in 1..Len(wgOut) :
        wgOut[i] = WgFinalLine(example) =>
            \A id \in WgIDs(example) : \E j \in 1..(i - 1) : wgOut[j] = WgCompleted(id)

WgWaitsForAll ==
    /\ wgCounter >= 0
    /\ panicked = ""
    /\ WgWaitReturned =>
          /\ \A id \in WgIDs(example) : wgPc[id] = "done"
          /\ wgCounter = 0
    /\ WgFinalLineLast

\* C9: in both WaitGroup programs wg.Wait() returns only after all 5
\* workers have called Done, the line printed after Wait comes after every
\* worker's completion message, the counter never becomes negative, and
\* Wait eventually returns and the final line is printed.
C9_WaitGroup == []WgWaitsForAll /\ <>(wgMainPc = "done")

C9_Witness ==
    /\ example = "waitGroupMain"
    /\ wgMainPc = "done"
    /\ wgCounter = 0
    /\ wgOut = <<WgCompleted(4), WgCompleted(0), WgCompleted(2), WgCompleted(1),
                 WgCompleted(3), WgFinalLine("waitGroupMain")>>

\* The number of requests of a client IP passed to next at a time in from..to
PassedWithin(ip, from, to) ==
    Cardinality({i \in 1..Len(rlPassed[ip]) :
                    from <= rlPassed[ip][i] /\ rlPassed[ip][i] <= to})

\* The requests of the latest request's client IP that were passed to next
\* within the minute before it, itself not counted.
PassedBeforeLast ==
    PassedWithin(HostOf(rlLast.addr), rlLast.at - TicksPerMinute, rlLast.at)
        - (IF rlLast.status = 200 THEN 1 ELSE 0)

\* C10 as stated: with the invocations serialized, a request is passed to
\* next if and only if fewer than the limit of requests from the same
\* client IP were passed within the preceding minute, and gets 429
\* otherwise; so in any one-minute window at most the limit of requests
\* from one IP reach next.
C10_LimitPerClientIP ==
    /\ rlLast # NoRequest =>
          /\ rlLast.status \in {200, 429}
          /\ rlLast.status = 200 <=> PassedBeforeLast < MaxRequestsPerMinute
    /\ \A ip \in ClientIPs : \A from \in 0..RlMaxTime :
          PassedWithin(ip, from, from + TicksPerMinute) <= MaxRequestsPerMinute

\* More requests of one client than the limit were passed to next within
\* one minute.
RcExceeded ==
    \E ip \in ClientIPs : \E from \in 0..RlMaxTime :
        PassedWithin(ip, from, from + TicksPerMinute) > MaxRequestsPerMinute

\* C11: the handler's accesses to its map are not synchronized; with two
\* invocations for the same client running at the same time there are
\* interleavings of the clean, check and append steps in which a recorded
\* request is lost and more requests than the limit are admitted within
\* one minute (the witness), and they arise in no other way: as long as no
\* two invocations have overlapped, nothing is lost, the limit holds and
\* the runtime reports no concurrent map access.
C11_LostOnlyWhenConcurrent ==
    (rcLost \/ RcExceeded \/ rcFatal # "") => rcOverlapped

C11_Witness ==
    /\ rcOverlapped
    /\ rcLost
    /\ RcExceeded
    /\ rcFatal = ""

\* Event e stands in the trace of the request.
MwRan(e) == \E k \in 1..Len(mwTrace) : mwTrace[k] = e

\* How often authMiddleware has called the handler it wraps.
AuthCalls ==
    LET layers == {i \in 1..Len(mwChain) : mwChain[i] = "auth"}
    IN  IF layers = {} THEN 0 ELSE mwCalls[CHOOSE i \in layers : TRUE]

\* C12: authMiddleware calls the handler it wraps if and only if the
\* Authorization header is exactly "Bearer valid-token-123"; for every
\* other request that reaches it (no header, no "Bearer " prefix, another
\* token) it responds 401 and the wrapped handler is never invoked.
C12_AuthExactToken ==
    (example = "middleware" /\ MwRan("Auth (token check)")) =>
        IF mwReq.auth = <<"Bearer", " ", "valid-token-123">>
          THEN /\ AuthCalls = 1
               /\ mwStatus # 401
          ELSE /\ AuthCalls = 0
               /\ mwStatus = 401
               /\ mwBody \in {"Unauthorized", "Invalid token"}
               /\ ~MwRan("Handler")

C12_Witness ==
    /\ mwChain = authHandler
    /\ mwReq.auth = <<"Bearer", " ", "valid-token-123", "x">>
    /\ mwStack = <<>>
    /\ mwStatus = 401
    /\ mwBody = "Invalid token"
    /\ mwTrace = <<"Auth (token check)">>

\* What a layer does before it calls its next handler.
MwEventOf(layer) ==
    CASE layer = "logging" -> "Logging (start)"
      [] layer = "cors" -> "CORS (headers set)"
      [] layer = "auth" -> "Auth (token check)"
      [] layer = "handler" -> "Handler"

\* A layer has run only after all the layers around it have.
OuterLayersFirst ==
    \A k \in 1..Len(mwTrace) :
        mwTrace[k] # "Logging (completion)" =>
            k <= Len(mwChain) /\ mwTrace[k] = MwEventOf(mwChain[k])

MwOrder ==
    example = "middleware" =>
        /\ \A i \in 1..4 : mwCalls[i] <= 1
        /\ OuterLayersFirst
        /\ (mwChain = protectedHandler /\ MwRan("Handler")) =>
              /\ SubSeq(mwTrace, 1, 4) =
                    <<"Logging (start)", "CORS (headers set)", "Auth (token check)",
                      "Handler">>
              /\ Len(mwTrace) <= 5
              /\ Len(mwTrace) = 5 => mwTrace[5] = "Logging (completion)"
              /\ mwStack = <<>> => Len(mwTrace) = 5

\* C20: a request that reaches the final handler through
\* loggingMiddleware(corsMiddleware(authMiddleware(handler))) goes through
\* Logging (start), CORS (headers set), Auth (token check), Handler and
\* Logging (completion) in this order; each middleware calls its next
\* handler at most once, no inner layer runs before the layers around it
\* have done their part, and the request is served to the end.
C20_MiddlewareOrder == []MwOrder /\ <>(mwStack = <<>>)

C20_Witness ==
    /\ mwChain = protectedHandler
    /\ mwReq.method = "POST"
    /\ mwStack = <<>>
    /\ mwCalls = <<1, 1, 1, 0>>
    /\ mwTrace = <<"Logging (start)", "CORS (headers set)", "Auth (token check)",
                   "Handler", "Logging (completion)">>

EvenSquares == <<4, 16, 36, 64, 100>>

PipeFinished ==
    /\ plMainPc = "done"
    /\ genPc = "done"
    /\ sqPc = "done"
    /\ flPc = "done"

\* What was delivered so far is the beginning of 4, 16, 36, 64, 100; a
\* stage has closed its output only with its input exhausted and nothing
\* left in its hands; at the end everything was delivered.
PipeOutcome ==
    /\ panicked = ""
    /\ Len(plOut) <= Len(EvenSquares)
    /\ plOut = SubSeq(EvenSquares, 1, Len(plOut))
    /\ IsClosed("numbers") => genI = pipeEnd + 1
    /\ IsClosed("squared") => IsClosed("numbers") /\ sqVal = 0
    /\ IsClosed("filtered") => IsClosed("squared") /\ flVal = 0
    /\ plMainPc = "done" => IsClosed("filtered") /\ plOut = EvenSquares
    /\ plMainPc = "done" => genPc = "done" /\ sqPc = "done" /\ flPc = "done"

\* C13: PipelinePattern (generate 1..10, square, keep the even ones)
\* delivers to its range loop exactly 4, 16, 36, 64, 100 in this order;
\* each stage closes its output channel only after its input is
\* exhausted; on every interleaving the range loop ends, with the three
\* stage goroutines finished.
C13_PipelineOutput == []PipeOutcome /\ <>[]PipeFinished

C13_Witness ==
    /\ example = "pipeline"
    /\ PipeFinished
    /\ plOut = <<4, 16, 36, 64, 100>>
    /\ chClosers["filtered"] = <<Filter>>

PcFinished ==
    /\ pcMainPc = "done"
    /\ prodPc = "done"
    /\ \A w \in Consumers : consPc[w] = "done"

\* No job is received twice and no result is made without its job; once
\* wg.Wait() has returned, jobs is closed, every job was received once and
\* the result of every job was sent once, and every consumer has finished.
PcOutcome ==
    /\ panicked = ""
    /\ \A j \in PcJobIDs : pcRecv[j] <= 1 /\ pcSent[j] <= pcRecv[j]
    /\ pcMainPc \in {"close", "done"} =>
          /\ chClosers["pc.jobs"] = <<Producer>>
          /\ prodI = pcNumJobs
          /\ \A j \in PcJobIDs : pcRecv[j] = 1 /\ pcSent[j] = 1
          /\ \A w \in Consumers : consPc[w] = "done" /\ consJob[w] = NoJob

\* C14: in ProducerConsumerPattern each produced job is received by
\* exactly one consumer and yields exactly one Result with its JobID;
\* wg.Wait() returns, and "All jobs processed!" is printed, only after the
\* producer has closed jobs and the results of all jobs have been sent; no
\* consumer blocks forever: on every interleaving all of them finish.
C14_ProducerConsumer == []PcOutcome /\ <>[]PcFinished

C14_Witness ==
    /\ example = "producerConsumer"
    /\ PcFinished
    /\ \A j \in PcJobIDs : pcRecv[j] = 1 /\ pcSent[j] = 1
    /\ colPc = "range"
    /\ Len(pcResults) = 2

\* ---- The select programs

TmPrinted(line) == \E i \in 1..Len(tmOut) : tmOut[i] = line

\* main has left the select with the timeout of SelectExamples
SeAfterTimeoutBlock == example = "selectExamples" /\ tmPc["main"] \in {"select3", "done"}

\* The timeout case was the one executed, nothing was received from
\* slowChannel, and when SelectExamples goes on to its next block the sender
\* has not even sent yet.
SeTimeoutOutcome ==
    /\ ~TmPrinted("Received: Finally arrived")
    /\ tmPc["slow"] # "done"
    /\ SeAfterTimeoutBlock => TmPrinted("Timeout: Operation took too long")
    /\ (example = "selectExamples" /\ tmPc["main"] = "select3") => tmPc["slow"] = "sleep"

\* C15: in the select with timeout of SelectExamples (the sender sleeps 2 s
\* before its send on the unbuffered slowChannel, the timeout is 1 s) the
\* time.After case is the one executed, the value sent on slowChannel is never
\* received, and SelectExamples goes on to its next block, and returns,
\* without waiting for the sender.
C15_TimeoutCaseTaken ==
    /\ []SeTimeoutOutcome
    /\ <>(example = "selectExamples" => tmPc["main"] = "done")

\* SelectExamples has returned, and the sender is blocked in its send for good.
C15_Witness ==
    /\ example = "selectExamples"
    /\ tmPc["main"] = "done"
    /\ tmPc["slow"] = "send"
    /\ TmPrinted("Timeout: Operation took too long")

\* The sleeps the standalone select program has in its code
SmCodeSleeps == <<Ms(2000), Ms(1000)>>

\* What the selects over two receive cases print
SelectOutcome ==
    /\ (example = "selectExamples" /\ tmPc["main"] \notin {"start", "select1"}) =>
           /\ tmOut[1] = "Received: Message from channel 2"
           /\ ~TmPrinted("Received: Message from channel 1")
    /\ (example = "selectExamples" /\ tmPc["main"] \in {"start", "select1"}) => tmOut = <<>>
    /\ (example = "selectMain" /\ tmPc["main"] # "exit") => tmOut = <<>>
    /\ (example = "selectMain" /\ tmPc["main"] = "exit") => Len(tmOut) = 1
    /\ (example = "selectMain" /\ tmPc["main"] = "exit" /\ tmSleeps = SmCodeSleeps) =>
           tmOut = <<"Message for channel 2">>

\* C17: a select over two receive cases executes exactly one case, the one
\* whose channel is ready first: the basic select of SelectExamples (1 s
\* against 800 ms) receives the message of channel 2, and the standalone
\* program (2 s for chan1, 1 s for chan2, timeout 3 s) prints exactly one
\* line, "Message for channel 2", never the timeout.
C17_FirstReadyCase ==
    /\ []SelectOutcome
    /\ <>(tmPc["main"] \in {"done", "exit"})

\* The standalone program, with the sleeps of its code, has printed its line.
C17_Witness ==
    /\ example = "selectMain"
    /\ tmSleeps = SmCodeSleeps
    /\ tmPc["main"] = "exit"
    /\ tmOut = <<"Message for channel 2">>
    /\ tmPc["sender1"] = "ended"

\* C18: as the comments of the standalone select program say: with a sleep
\* of 1 second in goroutine 1 and none in goroutine 2 the output is
\* "Message for channel 1"; with a sleep of 1 second in goroutine 2 and none
\* in goroutine 1 it is "Message for channel 2".
C18_DocumentedOutputs ==
    (example = "selectMain" /\ tmPc["main"] = "exit") =>
        /\ tmSleeps = <<Ms(1000), 0>> => tmOut = <<"Message for channel 1">>
        /\ tmSleeps = <<0, Ms(1000)>> => tmOut = <<"Message for channel 2">>

\* ---- ContextExamples

\* The lines with which a longRunningTask reports how it ended
CxCompletedLine(t) == CxName(t) \o ": Completed successfully"
CxCancelledLine(t, err) == CxName(t) \o ": Cancelled (" \o err \o ")"
CxOutcomeLines(t) ==
    {CxCompletedLine(t), CxCancelledLine(t, "context deadline exceeded"),
     CxCancelledLine(t, "context canceled")}
CxOutcomes(t) == {i \in 1..Len(tmOut) : tmOut[i] \in CxOutcomeLines(t)}

\* The line with which each task has to end
CxExpected(t) ==
    CASE t = "task1" -> CxCompletedLine(t)
      [] t = "task2" -> CxCancelledLine(t, "context deadline exceeded")
      [] t = "task3" -> CxCancelledLine(t, "context canceled")

CxOutcome ==
    /\ \A t \in CxTasks :
          /\ \A i \in CxOutcomes(t) : tmOut[i] = CxExpected(t)
          /\ Cardinality(CxOutcomes(t)) = (IF tmPc[t] = "done" THEN 1 ELSE 0)
    \* Task 2 is not cancelled before the deadline expires
    /\ tmPc["task2"] = "done" => tmNow >= Ms(2000) /\ tmPc["deadline"] = "fired"
    \* Task 3 is not cancelled before cancel2() is called
    /\ tmPc["task3"] = "done" =>
          \E i \in 1..Len(tmOut) : \E j \in CxOutcomes("task3") :
              i < j /\ tmOut[i] = "Cancelling context..."

CxAllDone == \A t \in CxTasks : tmPc[t] = "done"

\* C16: in ContextExamples Task 1 (1 s), under the context with the timeout
\* of 2 seconds, completes successfully; Task 2 (3 s), under the same context,
\* is cancelled when the deadline expires; Task 3 (5 s) is cancelled when
\* cancel2() is called after 1 s; every longRunningTask reports exactly one of
\* "Completed" and "Cancelled", and then it ends.
C16_ContextOutcomes == []CxOutcome /\ <>[]CxAllDone

\* ContextExamples has returned and the three tasks have reported.
C16_Witness ==
    /\ example = "contextExamples"
    /\ tmPc["main"] = "done"
    /\ CxAllDone
    /\ TmPrinted(CxCompletedLine("task1"))
    /\ TmPrinted(CxCancelledLine("task2", "context deadline exceeded"))
    /\ TmPrinted(CxCancelledLine("task3", "context canceled"))

\* ---- The defer program

RECURSIVE DfCountdown(_)
\* The writes of "n-1 ", ..., "0 "
DfCountdown(n) == IF n = 0 THEN <<>> ELSE <<PrintfD(n - 1)>> \o DfCountdown(n - 1)

\* The documented output: Starting main function, Loop ended, 4 3 2 1 0 ,
\* Starting main function with defer, Ending main function
DfDocumented ==
    <<"Starting main function\n", "Loop ended\n">> \o DfCountdown(dfLoopN)
        \o <<"Starting main function with defer\n", "Ending main function\n">>

DfIsPrefix(s, t) == Len(s) <= Len(t) /\ s = SubSeq(t, 1, Len(s))

DfOutcome ==
    /\ DfIsPrefix(dfOut, DfDocumented)
    \* no deferred call runs before the body of main is over
    /\ dfPc \notin {"return", "done", "none"} => Len(dfOut) <= 2 /\ DfIsPrefix(dfOut, DfDocumented)
    /\ dfPc = "done" => dfOut = DfDocumented /\ dfStack = <<>>
    \* what is written and what is still pending are the registered calls, last first
    /\ dfPc = "return" =>
          \E k \in 0..Len(DfCountdown(dfLoopN)) + 2 :
              /\ Len(dfStack) = k
              /\ Len(dfOut) = Len(DfDocumented) - k

\* C19: in the defer program the deferred calls run only after the body of
\* main is over, last registered first, each with the arguments it had when
\* it was registered: the output is "Starting main function", "Loop ended",
\* "4 3 2 1 0 ", "Starting main function with defer", "Ending main function".
C19_DeferOrder == []DfOutcome /\ <>(example = "deferMain" => dfPc = "done")

\* main has returned and all seven deferred calls have run.
C19_Witness ==
    /\ example = "deferMain"
    /\ dfPc = "done"
    /\ Len(dfOut) = dfLoopN + 4
    /\ dfOut[3] = PrintfD(dfLoopN - 1)

\* ---- The mutex counter program: the critical section

\* g is between mu.Lock() and mu.Unlock()
MxInCritical(g) == incPc[g] \in {"load", "store", "unlock"}

\* The increments g has completed: the rounds of its loop that are over, and
\* the one whose store is done but whose Unlock is still to come
MxCompleted(g) == incI[g] + (IF incPc[g] = "unlock" THEN 1 ELSE 0)

RECURSIVE MxCompletedUpTo(_)
MxCompletedUpTo(n) == IF n = 0 THEN 0 ELSE MxCompleted(n) + MxCompletedUpTo(n - 1)

MxCounterExact ==
    /\ \A g, h \in Goroutines : (MxInCritical(g) /\ MxInCritical(h)) => g = h
    /\ (\E g \in Goroutines : MxInCritical(g)) <=> mu
    /\ counter = MxCompletedUpTo(NumGoroutines)
    /\ counter <= NumGoroutines * NumIncrements

\* C25: in the mutex counter program at most one goroutine is between
\* mu.Lock() and mu.Unlock() in every reachable state, counter is the number of
\* increments all goroutines have completed so far (no update is lost), it is
\* never greater than NumGoroutines * NumIncrements (5000 in the program) and
\* it never decreases.
C25_MutexCounter == []MxCounterExact /\ [][counter' >= counter]_vars

\* All goroutines have run all their increments, one of them last.
C25_Witness ==
    /\ example = "mutex"
    /\ MutexAllDone
    /\ counter = NumGoroutines * NumIncrements
    /\ ~mu

\* ---- SelectExamples: the goroutines it leaves behind

\* The select that listened on the channel of p is over
SeSelectOver(p) ==
    IF p = "slow" THEN tmPc["main"] \in {"select3", "done"}
    ELSE tmPc["main"] \in {"timeout", "select2", "select3", "done"}

\* C26: every goroutine SelectExamples starts ends: none is blocked in its
\* send on c1, c2 or slowChannel once the select that listened on that channel
\* is over.
C26_NoGoroutineLeak ==
    example = "selectExamples" =>
        \A p \in {"sender1", "sender2", "slow"} : ~(tmPc[p] = "send" /\ SeSelectOver(p))

\* ---- functions.Server

\* The calls of Start and Stop made so far, by their position in the log
SrvStartStops == {i \in 1..Len(srvLog) : srvLog[i].call \in {"Start", "Stop"}}

\* The most recent call of Start or Stop was a call of Start
SrvLastWasStart ==
    \E i \in SrvStartStops : /\ srvLog[i].call = "Start"
                             /\ \A j \in SrvStartStops : j <= i

SrvCalled(call) == Len(srvLog') = Len(srvLog) + 1 /\ srvLog'[Len(srvLog')].call = call
SrvResult == srvLog'[Len(srvLog')].result
SrvFieldsUnchanged == UNCHANGED <<srvName, srvPort, srvRunning>>

\* What each call does to the server and what it reports
SrvCallEffect ==
    /\ SrvCalled("HandleRequest") =>
          /\ SrvFieldsUnchanged
          /\ (SrvResult = srvName \o " handling: " \o srvLog'[Len(srvLog')].arg) <=> srvRunning
          /\ (SrvResult = "Cannot handle request: server is not running") <=> ~srvRunning
    /\ SrvCalled("SetPort") =>
          /\ UNCHANGED <<srvName, srvRunning>>
          /\ ToString(srvPort') = srvLog'[Len(srvLog')].arg
    /\ SrvCalled("GetStatus") =>
          /\ SrvFieldsUnchanged
          /\ (SrvResult = "Running on port " \o ToString(srvPort)) <=> srvRunning
          /\ (SrvResult = "Stopped") <=> ~srvRunning
    /\ (SrvCalled("Start") \/ SrvCalled("Stop")) => UNCHANGED <<srvName, srvPort>>

\* C23: for a functions.Server, after any sequence of calls of Start, Stop,
\* SetPort, HandleRequest and GetStatus: Running is true iff the most recent
\* call of Start or Stop was Start (false at first); HandleRequest handles the
\* request iff Running, and changes no field; SetPort changes Port only;
\* GetStatus returns "Running on port <Port>" iff Running, else "Stopped", and
\* changes no field.
C23_ServerMethods == [](srvRunning <=> SrvLastWasStart) /\ [][SrvCallEffect]_vars

\* Started, the port changed, the status asked for: the new port is reported.
C23_Witness ==
    /\ example = "methodExamples"
    /\ Len(srvLog) = 3
    /\ srvLog[1].call = "Start"
    /\ srvLog[2].call = "SetPort"
    /\ srvLog[3].call = "GetStatus"
    /\ srvLog[3].result = "Running on port 9090"
    /\ srvRunning

\* ---- The users API

\* The handler has written one response: the header once, the body once
HsOneOutcome == hsResp.headerWrites = 1 /\ Len(hsResp.body) = 1

\* The response is the error response of http.Error with this status and text
HsError(code, text) ==
    /\ hsResp.code = code
    /\ hsResp.body[1].kind = "text"
    /\ hsResp.body[1].text = text \o "\n"

\* The response is the 201 with the user of this name and address
HsCreated(name, email) ==
    /\ hsResp.code = 201
    /\ hsResp.body[1].kind = "json"
    /\ hsResp.body[1].value.Name = name
    /\ hsResp.body[1].value.Email = email
    /\ hsResp.body[1].value.Role = "user"

HsServedPost ==
    example = "usersAPI" /\ ~HsPending /\ hsReq.path = <<"/api/users">> /\ hsReq.method = "POST"

\* The outcome of POST /api/users, by what the decoder makes of the body
HsCreateOutcome ==
    LET decoded == Decode(hsReq.body) IN
    HsServedPost =>
        /\ HsOneOutcome
        /\ CASE decoded.err # "nil" -> HsError(400, "Invalid JSON")
             [] decoded.err = "nil" /\ decoded.req.Name = "" -> HsError(400, "Name is required")
             [] decoded.err = "nil" /\ decoded.req.Name # "" /\ decoded.req.Email = "" ->
                    HsError(400, "Email is required")
             [] OTHER -> HsCreated(decoded.req.Name, decoded.req.Email)
        /\ hsResp.code = 400 => hsResp.body[1].value = NoValue /\ hsIssued = <<>>
        /\ hsResp.code \in {400, 201}

\* The same for bodies written out
HsCreateCases ==
    HsServedPost =>
        /\ hsReq.body = <<>> => HsError(400, "Invalid JSON")
        /\ hsReq.body = <<"junk">> => HsError(400, "Invalid JSON")
        /\ hsReq.body = <<"{", "\"name\"", ":", "\"a\"", ",", "\"email\"", ":", "\"a\"">> =>
               HsError(400, "Invalid JSON")
        /\ hsReq.body = <<"{", "}">> => HsError(400, "Name is required")
        /\ hsReq.body = <<"{", "\"email\"", ":", "\"a\"", "}">> => HsError(400, "Name is required")
        /\ hsReq.body = <<"{", "\"email\"", ":", "\"\"", ",", "\"name\"", ":", "\"\"", "}">> =>
               HsError(400, "Name is required")
        /\ hsReq.body = <<"{", "\"name\"", ":", "\"a\"", "}">> => HsError(400, "Email is required")
        /\ hsReq.body = <<"{", "\"name\"", ":", "\"a\"", ",", "\"email\"", ":", "\"\"", "}">> =>
               HsError(400, "Email is required")
        /\ hsReq.body = <<"{", "\"email\"", ":", "\"a\"", ",", "\"name\"", ":", "\"a\"", "}">> =>
               HsCreated("a", "a")

\* C21: handleCreateUser (POST /api/users) writes exactly one outcome, decided
\* in this order: the body cannot be decoded as JSON: 400 "Invalid JSON"; the
\* name is empty or missing: 400 "Name is required"; the e-mail address is
\* empty or missing: 400 "Email is required"; otherwise 201 with a user that
\* has the name and the address of the request and the role "user".  No 400
\* comes with a user.
C21_CreateUserOutcome == HsCreateOutcome /\ HsCreateCases

\* Name and address both empty: the name is the one complained about.
C21_Witness ==
    /\ HsServedPost
    /\ hsReq.body = <<"{", "\"email\"", ":", "\"\"", ",", "\"name\"", ":", "\"\"", "}">>
    /\ HsError(400, "Name is required")

\* The text after /api/users/ in the path
HsIdText == TrimPrefix(hsReq.path, <<"/api/users/">>)

\* A decimal integer in the range of int: an optional sign and digits
IsIntegerText(s) ==
    LET digits == IF s # <<>> /\ Head(s) \in {"+", "-"} THEN Tail(s) ELSE s IN
    /\ digits # <<>>
    /\ \A i \in 1..Len(digits) : IsDigit(digits[i])
    /\ DecimalValue(digits) <= (IF Head(s) = "-" THEN 0 - MinInt ELSE MaxInt)

IntegerOf(s) ==
    IF Head(s) = "-" THEN 0 - DecimalValue(Tail(s))
    ELSE IF Head(s) = "+" THEN DecimalValue(Tail(s))
    ELSE DecimalValue(s)

HsServedByID ==
    example = "usersAPI" /\ ~HsPending /\ HasPrefix(hsReq.path, <<"/api/users/">>)

HsByIDOutcome ==
    HsServedByID =>
        /\ HsOneOutcome
        /\ CASE HsIdText = <<>> -> HsError(400, "User ID is required")
             [] HsIdText # <<>> /\ ~IsIntegerText(HsIdText) -> HsError(400, "Invalid user ID")
             [] IsIntegerText(HsIdText) /\ hsReq.method # "GET" ->
                    HsError(405, "Method not allowed")
             [] IsIntegerText(HsIdText) /\ hsReq.method = "GET"
                  /\ IntegerOf(HsIdText) \notin {1, 2, 3} -> HsError(404, "User not found")
             [] OTHER ->
                    /\ hsResp.code = 200
                    /\ hsResp.body[1].kind = "json"
                    /\ hsResp.body[1].value \in {Alice, Bob, Charlie}
                    /\ hsResp.body[1].value.ID = IntegerOf(HsIdText)

\* C22: userByIDHandler (/api/users/{id}) decides in this order: the id is
\* empty: 400; the id is no integer: 400; the method is not GET: 405; GET and
\* the id is none of 1, 2, 3: 404; GET and the id is one of them: 200 with the
\* user that has this ID.  The id is looked at before the method, so a request
\* that is not a GET and has an invalid id gets 400, not 405.
C22_UserByIDOrder == HsByIDOutcome

\* A DELETE with an id that is no integer has got its 400.
C22_Witness ==
    /\ HsServedByID
    /\ hsReq.method = "DELETE"
    /\ HsIdText = <<"a">>
    /\ HsError(400, "Invalid user ID")

\* ---- generateUserID

\* C24: generateUserID gives unique IDs: no two calls of it (so no two users
\* created by createUser or handleCreateUser) get the same ID; the ID is in
\* 0..9999.
C24_UniqueUserIDs ==
    /\ \A i, j \in 1..Len(hsIssued) : i # j => hsIssued[i] # hsIssued[j]
    /\ \A i \in 1..Len(hsIssued) : hsIssued[i] \in 0..9999

=============================================================================
